---- MODULE Spec2Model ----
(***************************************************************************)
(* Bus ticket booking engine: the in-memory TicketManager (models.py), the *)
(* input helpers (utils.py), the HTTP handlers over them (routes.py), the  *)
(* SQLite DatabaseManager (database.py) and the AlertSystem                *)
(* (monitoring.py).                                                        *)
(*                                                                         *)
(* A Python str is modelled as a sequence of characters, so that the       *)
(* regular expressions and conversions of utils.py are computed character  *)
(* by character.  A printable ASCII character is the one-character string  *)
(* of it, and so are "\t", "\n", "\r" and "\f"; every other character is  *)
(* the string "U+" followed by its code point in 4 to 6 upper-case         *)
(* hexadecimal digits: "U+000B" is '\x0b', "U+00E9" is e with acute,       *)
(* "U+0663" is the Arabic-Indic digit three.  The tables of characters     *)
(* are those of Python 3.11 (Unicode 14.0).                                *)
(***************************************************************************)
EXTENDS Integers, Sequences, FiniteSets, TLC

(***************************************************************************)
(* Characters and elementary string functions of Python                    *)
(***************************************************************************)
LowerSeq == <<"a","b","c","d","e","f","g","h","i","j","k","l","m",
              "n","o","p","q","r","s","t","u","v","w","x","y","z">>
UpperSeq == <<"A","B","C","D","E","F","G","H","I","J","K","L","M",
              "N","O","P","Q","R","S","T","U","V","W","X","Y","Z">>
DigitSeq == <<"0","1","2","3","4","5","6","7","8","9">>

Range(s) == {s[i] : i \in DOMAIN s}
\* [a-z], [A-Z] and [0-9] of the patterns
Lower == Range(LowerSeq)
Upper == Range(UpperSeq)
AsciiDigits == Range(DigitSeq)

\* The characters c with c.isspace(), which are those \s of a str pattern
\* matches and those str.strip() removes.
WhitespaceSeq ==
       <<"\t", "\n", "U+000B", "\f", "\r", "U+001C", "U+001D", "U+001E">>
    \o <<"U+001F", " ", "U+0085", "U+00A0", "U+1680", "U+2000", "U+2001", "U+2002">>
    \o <<"U+2003", "U+2004", "U+2005", "U+2006", "U+2007", "U+2008", "U+2009", "U+200A">>
    \o <<"U+2028", "U+2029", "U+202F", "U+205F", "U+3000">>
Whitespace == Range(WhitespaceSeq)
\* the whitespace int() accepts around a number: U+001C .. U+001F are not
IntWhitespace == Whitespace \ {"U+001C", "U+001D", "U+001E", "U+001F"}

\* The Unicode decimal digits (category Nd), which are the characters \d of a
\* str pattern matches and int() reads, in code point order: they come in
\* runs of ten, from the digit zero to the digit nine of a script.
UnicodeDigitSeq ==
       <<"0", "1", "2", "3", "4", "5", "6", "7", "8", "9">>
    \o <<"U+0660", "U+0661", "U+0662", "U+0663", "U+0664", "U+0665", "U+0666", "U+0667", "U+0668", "U+0669">>
    \o <<"U+06F0", "U+06F1", "U+06F2", "U+06F3", "U+06F4", "U+06F5", "U+06F6", "U+06F7", "U+06F8", "U+06F9">>
    \o <<"U+07C0", "U+07C1", "U+07C2", "U+07C3", "U+07C4", "U+07C5", "U+07C6", "U+07C7", "U+07C8", "U+07C9">>
    \o <<"U+0966", "U+0967", "U+0968", "U+0969", "U+096A", "U+096B", "U+096C", "U+096D", "U+096E", "U+096F">>
    \o <<"U+09E6", "U+09E7", "U+09E8", "U+09E9", "U+09EA", "U+09EB", "U+09EC", "U+09ED", "U+09EE", "U+09EF">>
    \o <<"U+0A66", "U+0A67", "U+0A68", "U+0A69", "U+0A6A", "U+0A6B", "U+0A6C", "U+0A6D", "U+0A6E", "U+0A6F">>
    \o <<"U+0AE6", "U+0AE7", "U+0AE8", "U+0AE9", "U+0AEA", "U+0AEB", "U+0AEC", "U+0AED", "U+0AEE", "U+0AEF">>
    \o <<"U+0B66", "U+0B67", "U+0B68", "U+0B69", "U+0B6A", "U+0B6B", "U+0B6C", "U+0B6D", "U+0B6E", "U+0B6F">>
    \o <<"U+0BE6", "U+0BE7", "U+0BE8", "U+0BE9", "U+0BEA", "U+0BEB", "U+0BEC", "U+0BED", "U+0BEE", "U+0BEF">>
    \o <<"U+0C66", "U+0C67", "U+0C68", "U+0C69", "U+0C6A", "U+0C6B", "U+0C6C", "U+0C6D", "U+0C6E", "U+0C6F">>
    \o <<"U+0CE6", "U+0CE7", "U+0CE8", "U+0CE9", "U+0CEA", "U+0CEB", "U+0CEC", "U+0CED", "U+0CEE", "U+0CEF">>
    \o <<"U+0D66", "U+0D67", "U+0D68", "U+0D69", "U+0D6A", "U+0D6B", "U+0D6C", "U+0D6D", "U+0D6E", "U+0D6F">>
    \o <<"U+0DE6", "U+0DE7", "U+0DE8", "U+0DE9", "U+0DEA", "U+0DEB", "U+0DEC", "U+0DED", "U+0DEE", "U+0DEF">>
    \o <<"U+0E50", "U+0E51", "U+0E52", "U+0E53", "U+0E54", "U+0E55", "U+0E56", "U+0E57", "U+0E58", "U+0E59">>
    \o <<"U+0ED0", "U+0ED1", "U+0ED2", "U+0ED3", "U+0ED4", "U+0ED5", "U+0ED6", "U+0ED7", "U+0ED8", "U+0ED9">>
    \o <<"U+0F20", "U+0F21", "U+0F22", "U+0F23", "U+0F24", "U+0F25", "U+0F26", "U+0F27", "U+0F28", "U+0F29">>
    \o <<"U+1040", "U+1041", "U+1042", "U+1043", "U+1044", "U+1045", "U+1046", "U+1047", "U+1048", "U+1049">>
    \o <<"U+1090", "U+1091", "U+1092", "U+1093", "U+1094", "U+1095", "U+1096", "U+1097", "U+1098", "U+1099">>
    \o <<"U+17E0", "U+17E1", "U+17E2", "U+17E3", "U+17E4", "U+17E5", "U+17E6", "U+17E7", "U+17E8", "U+17E9">>
    \o <<"U+1810", "U+1811", "U+1812", "U+1813", "U+1814", "U+1815", "U+1816", "U+1817", "U+1818", "U+1819">>
    \o <<"U+1946", "U+1947", "U+1948", "U+1949", "U+194A", "U+194B", "U+194C", "U+194D", "U+194E", "U+194F">>
    \o <<"U+19D0", "U+19D1", "U+19D2", "U+19D3", "U+19D4", "U+19D5", "U+19D6", "U+19D7", "U+19D8", "U+19D9">>
    \o <<"U+1A80", "U+1A81", "U+1A82", "U+1A83", "U+1A84", "U+1A85", "U+1A86", "U+1A87", "U+1A88", "U+1A89">>
    \o <<"U+1A90", "U+1A91", "U+1A92", "U+1A93", "U+1A94", "U+1A95", "U+1A96", "U+1A97", "U+1A98", "U+1A99">>
    \o <<"U+1B50", "U+1B51", "U+1B52", "U+1B53", "U+1B54", "U+1B55", "U+1B56", "U+1B57", "U+1B58", "U+1B59">>
    \o <<"U+1BB0", "U+1BB1", "U+1BB2", "U+1BB3", "U+1BB4", "U+1BB5", "U+1BB6", "U+1BB7", "U+1BB8", "U+1BB9">>
    \o <<"U+1C40", "U+1C41", "U+1C42", "U+1C43", "U+1C44", "U+1C45", "U+1C46", "U+1C47", "U+1C48", "U+1C49">>
    \o <<"U+1C50", "U+1C51", "U+1C52", "U+1C53", "U+1C54", "U+1C55", "U+1C56", "U+1C57", "U+1C58", "U+1C59">>
    \o <<"U+A620", "U+A621", "U+A622", "U+A623", "U+A624", "U+A625", "U+A626", "U+A627", "U+A628", "U+A629">>
    \o <<"U+A8D0", "U+A8D1", "U+A8D2", "U+A8D3", "U+A8D4", "U+A8D5", "U+A8D6", "U+A8D7", "U+A8D8", "U+A8D9">>
    \o <<"U+A900", "U+A901", "U+A902", "U+A903", "U+A904", "U+A905", "U+A906", "U+A907", "U+A908", "U+A909">>
    \o <<"U+A9D0", "U+A9D1", "U+A9D2", "U+A9D3", "U+A9D4", "U+A9D5", "U+A9D6", "U+A9D7", "U+A9D8", "U+A9D9">>
    \o <<"U+A9F0", "U+A9F1", "U+A9F2", "U+A9F3", "U+A9F4", "U+A9F5", "U+A9F6", "U+A9F7", "U+A9F8", "U+A9F9">>
    \o <<"U+AA50", "U+AA51", "U+AA52", "U+AA53", "U+AA54", "U+AA55", "U+AA56", "U+AA57", "U+AA58", "U+AA59">>
    \o <<"U+ABF0", "U+ABF1", "U+ABF2", "U+ABF3", "U+ABF4", "U+ABF5", "U+ABF6", "U+ABF7", "U+ABF8", "U+ABF9">>
    \o <<"U+FF10", "U+FF11", "U+FF12", "U+FF13", "U+FF14", "U+FF15", "U+FF16", "U+FF17", "U+FF18", "U+FF19">>
    \o <<"U+104A0", "U+104A1", "U+104A2", "U+104A3", "U+104A4", "U+104A5", "U+104A6", "U+104A7", "U+104A8", "U+104A9">>
    \o <<"U+10D30", "U+10D31", "U+10D32", "U+10D33", "U+10D34", "U+10D35", "U+10D36", "U+10D37", "U+10D38", "U+10D39">>
    \o <<"U+11066", "U+11067", "U+11068", "U+11069", "U+1106A", "U+1106B", "U+1106C", "U+1106D", "U+1106E", "U+1106F">>
    \o <<"U+110F0", "U+110F1", "U+110F2", "U+110F3", "U+110F4", "U+110F5", "U+110F6", "U+110F7", "U+110F8", "U+110F9">>
    \o <<"U+11136", "U+11137", "U+11138", "U+11139", "U+1113A", "U+1113B", "U+1113C", "U+1113D", "U+1113E", "U+1113F">>
    \o <<"U+111D0", "U+111D1", "U+111D2", "U+111D3", "U+111D4", "U+111D5", "U+111D6", "U+111D7", "U+111D8", "U+111D9">>
    \o <<"U+112F0", "U+112F1", "U+112F2", "U+112F3", "U+112F4", "U+112F5", "U+112F6", "U+112F7", "U+112F8", "U+112F9">>
    \o <<"U+11450", "U+11451", "U+11452", "U+11453", "U+11454", "U+11455", "U+11456", "U+11457", "U+11458", "U+11459">>
    \o <<"U+114D0", "U+114D1", "U+114D2", "U+114D3", "U+114D4", "U+114D5", "U+114D6", "U+114D7", "U+114D8", "U+114D9">>
    \o <<"U+11650", "U+11651", "U+11652", "U+11653", "U+11654", "U+11655", "U+11656", "U+11657", "U+11658", "U+11659">>
    \o <<"U+116C0", "U+116C1", "U+116C2", "U+116C3", "U+116C4", "U+116C5", "U+116C6", "U+116C7", "U+116C8", "U+116C9">>
    \o <<"U+11730", "U+11731", "U+11732", "U+11733", "U+11734", "U+11735", "U+11736", "U+11737", "U+11738", "U+11739">>
    \o <<"U+118E0", "U+118E1", "U+118E2", "U+118E3", "U+118E4", "U+118E5", "U+118E6", "U+118E7", "U+118E8", "U+118E9">>
    \o <<"U+11950", "U+11951", "U+11952", "U+11953", "U+11954", "U+11955", "U+11956", "U+11957", "U+11958", "U+11959">>
    \o <<"U+11C50", "U+11C51", "U+11C52", "U+11C53", "U+11C54", "U+11C55", "U+11C56", "U+11C57", "U+11C58", "U+11C59">>
    \o <<"U+11D50", "U+11D51", "U+11D52", "U+11D53", "U+11D54", "U+11D55", "U+11D56", "U+11D57", "U+11D58", "U+11D59">>
    \o <<"U+11DA0", "U+11DA1", "U+11DA2", "U+11DA3", "U+11DA4", "U+11DA5", "U+11DA6", "U+11DA7", "U+11DA8", "U+11DA9">>
    \o <<"U+16A60", "U+16A61", "U+16A62", "U+16A63", "U+16A64", "U+16A65", "U+16A66", "U+16A67", "U+16A68", "U+16A69">>
    \o <<"U+16AC0", "U+16AC1", "U+16AC2", "U+16AC3", "U+16AC4", "U+16AC5", "U+16AC6", "U+16AC7", "U+16AC8", "U+16AC9">>
    \o <<"U+16B50", "U+16B51", "U+16B52", "U+16B53", "U+16B54", "U+16B55", "U+16B56", "U+16B57", "U+16B58", "U+16B59">>
    \o <<"U+1D7CE", "U+1D7CF", "U+1D7D0", "U+1D7D1", "U+1D7D2", "U+1D7D3", "U+1D7D4", "U+1D7D5", "U+1D7D6", "U+1D7D7">>
    \o <<"U+1D7D8", "U+1D7D9", "U+1D7DA", "U+1D7DB", "U+1D7DC", "U+1D7DD", "U+1D7DE", "U+1D7DF", "U+1D7E0", "U+1D7E1">>
    \o <<"U+1D7E2", "U+1D7E3", "U+1D7E4", "U+1D7E5", "U+1D7E6", "U+1D7E7", "U+1D7E8", "U+1D7E9", "U+1D7EA", "U+1D7EB">>
    \o <<"U+1D7EC", "U+1D7ED", "U+1D7EE", "U+1D7EF", "U+1D7F0", "U+1D7F1", "U+1D7F2", "U+1D7F3", "U+1D7F4", "U+1D7F5">>
    \o <<"U+1D7F6", "U+1D7F7", "U+1D7F8", "U+1D7F9", "U+1D7FA", "U+1D7FB", "U+1D7FC", "U+1D7FD", "U+1D7FE", "U+1D7FF">>
    \o <<"U+1E140", "U+1E141", "U+1E142", "U+1E143", "U+1E144", "U+1E145", "U+1E146", "U+1E147", "U+1E148", "U+1E149">>
    \o <<"U+1E2F0", "U+1E2F1", "U+1E2F2", "U+1E2F3", "U+1E2F4", "U+1E2F5", "U+1E2F6", "U+1E2F7", "U+1E2F8", "U+1E2F9">>
    \o <<"U+1E950", "U+1E951", "U+1E952", "U+1E953", "U+1E954", "U+1E955", "U+1E956", "U+1E957", "U+1E958", "U+1E959">>
    \o <<"U+1FBF0", "U+1FBF1", "U+1FBF2", "U+1FBF3", "U+1FBF4", "U+1FBF5", "U+1FBF6", "U+1FBF7", "U+1FBF8", "U+1FBF9">>
Digits == Range(UnicodeDigitSeq)

\* The characters c other than a-z with c.upper() # c, in code point order,
\* and c.upper() of each, which is up to three characters long.
CasedSeq ==
       <<"U+00B5", "U+00DF", "U+00E0", "U+00E1", "U+00E2", "U+00E3", "U+00E4", "U+00E5">>
    \o <<"U+00E6", "U+00E7", "U+00E8", "U+00E9", "U+00EA", "U+00EB", "U+00EC", "U+00ED">>
    \o <<"U+00EE", "U+00EF", "U+00F0", "U+00F1", "U+00F2", "U+00F3", "U+00F4", "U+00F5">>
    \o <<"U+00F6", "U+00F8", "U+00F9", "U+00FA", "U+00FB", "U+00FC", "U+00FD", "U+00FE">>
    \o <<"U+00FF", "U+0101", "U+0103", "U+0105", "U+0107", "U+0109", "U+010B", "U+010D">>
    \o <<"U+010F", "U+0111", "U+0113", "U+0115", "U+0117", "U+0119", "U+011B", "U+011D">>
    \o <<"U+011F", "U+0121", "U+0123", "U+0125", "U+0127", "U+0129", "U+012B", "U+012D">>
    \o <<"U+012F", "U+0131", "U+0133", "U+0135", "U+0137", "U+013A", "U+013C", "U+013E">>
    \o <<"U+0140", "U+0142", "U+0144", "U+0146", "U+0148", "U+0149", "U+014B", "U+014D">>
    \o <<"U+014F", "U+0151", "U+0153", "U+0155", "U+0157", "U+0159", "U+015B", "U+015D">>
    \o <<"U+015F", "U+0161", "U+0163", "U+0165", "U+0167", "U+0169", "U+016B", "U+016D">>
    \o <<"U+016F", "U+0171", "U+0173", "U+0175", "U+0177", "U+017A", "U+017C", "U+017E">>
    \o <<"U+017F", "U+0180", "U+0183", "U+0185", "U+0188", "U+018C", "U+0192", "U+0195">>
    \o <<"U+0199", "U+019A", "U+019E", "U+01A1", "U+01A3", "U+01A5", "U+01A8", "U+01AD">>
    \o <<"U+01B0", "U+01B4", "U+01B6", "U+01B9", "U+01BD", "U+01BF", "U+01C5", "U+01C6">>
    \o <<"U+01C8", "U+01C9", "U+01CB", "U+01CC", "U+01CE", "U+01D0", "U+01D2", "U+01D4">>
    \o <<"U+01D6", "U+01D8", "U+01DA", "U+01DC", "U+01DD", "U+01DF", "U+01E1", "U+01E3">>
    \o <<"U+01E5", "U+01E7", "U+01E9", "U+01EB", "U+01ED", "U+01EF", "U+01F0", "U+01F2">>
    \o <<"U+01F3", "U+01F5", "U+01F9", "U+01FB", "U+01FD", "U+01FF", "U+0201", "U+0203">>
    \o <<"U+0205", "U+0207", "U+0209", "U+020B", "U+020D", "U+020F", "U+0211", "U+0213">>
    \o <<"U+0215", "U+0217", "U+0219", "U+021B", "U+021D", "U+021F", "U+0223", "U+0225">>
    \o <<"U+0227", "U+0229", "U+022B", "U+022D", "U+022F", "U+0231", "U+0233", "U+023C">>
    \o <<"U+023F", "U+0240", "U+0242", "U+0247", "U+0249", "U+024B", "U+024D", "U+024F">>
    \o <<"U+0250", "U+0251", "U+0252", "U+0253", "U+0254", "U+0256", "U+0257", "U+0259">>
    \o <<"U+025B", "U+025C", "U+0260", "U+0261", "U+0263", "U+0265", "U+0266", "U+0268">>
    \o <<"U+0269", "U+026A", "U+026B", "U+026C", "U+026F", "U+0271", "U+0272", "U+0275">>
    \o <<"U+027D", "U+0280", "U+0282", "U+0283", "U+0287", "U+0288", "U+0289", "U+028A">>
    \o <<"U+028B", "U+028C", "U+0292", "U+029D", "U+029E", "U+0345", "U+0371", "U+0373">>
    \o <<"U+0377", "U+037B", "U+037C", "U+037D", "U+0390", "U+03AC", "U+03AD", "U+03AE">>
    \o <<"U+03AF", "U+03B0", "U+03B1", "U+03B2", "U+03B3", "U+03B4", "U+03B5", "U+03B6">>
    \o <<"U+03B7", "U+03B8", "U+03B9", "U+03BA", "U+03BB", "U+03BC", "U+03BD", "U+03BE">>
    \o <<"U+03BF", "U+03C0", "U+03C1", "U+03C2", "U+03C3", "U+03C4", "U+03C5", "U+03C6">>
    \o <<"U+03C7", "U+03C8", "U+03C9", "U+03CA", "U+03CB", "U+03CC", "U+03CD", "U+03CE">>
    \o <<"U+03D0", "U+03D1", "U+03D5", "U+03D6", "U+03D7", "U+03D9", "U+03DB", "U+03DD">>
    \o <<"U+03DF", "U+03E1", "U+03E3", "U+03E5", "U+03E7", "U+03E9", "U+03EB", "U+03ED">>
    \o <<"U+03EF", "U+03F0", "U+03F1", "U+03F2", "U+03F3", "U+03F5", "U+03F8", "U+03FB">>
    \o <<"U+0430", "U+0431", "U+0432", "U+0433", "U+0434", "U+0435", "U+0436", "U+0437">>
    \o <<"U+0438", "U+0439", "U+043A", "U+043B", "U+043C", "U+043D", "U+043E", "U+043F">>
    \o <<"U+0440", "U+0441", "U+0442", "U+0443", "U+0444", "U+0445", "U+0446", "U+0447">>
    \o <<"U+0448", "U+0449", "U+044A", "U+044B", "U+044C", "U+044D", "U+044E", "U+044F">>
    \o <<"U+0450", "U+0451", "U+0452", "U+0453", "U+0454", "U+0455", "U+0456", "U+0457">>
    \o <<"U+0458", "U+0459", "U+045A", "U+045B", "U+045C", "U+045D", "U+045E", "U+045F">>
    \o <<"U+0461", "U+0463", "U+0465", "U+0467", "U+0469", "U+046B", "U+046D", "U+046F">>
    \o <<"U+0471", "U+0473", "U+0475", "U+0477", "U+0479", "U+047B", "U+047D", "U+047F">>
    \o <<"U+0481", "U+048B", "U+048D", "U+048F", "U+0491", "U+0493", "U+0495", "U+0497">>
    \o <<"U+0499", "U+049B", "U+049D", "U+049F", "U+04A1", "U+04A3", "U+04A5", "U+04A7">>
    \o <<"U+04A9", "U+04AB", "U+04AD", "U+04AF", "U+04B1", "U+04B3", "U+04B5", "U+04B7">>
    \o <<"U+04B9", "U+04BB", "U+04BD", "U+04BF", "U+04C2", "U+04C4", "U+04C6", "U+04C8">>
    \o <<"U+04CA", "U+04CC", "U+04CE", "U+04CF", "U+04D1", "U+04D3", "U+04D5", "U+04D7">>
    \o <<"U+04D9", "U+04DB", "U+04DD", "U+04DF", "U+04E1", "U+04E3", "U+04E5", "U+04E7">>
    \o <<"U+04E9", "U+04EB", "U+04ED", "U+04EF", "U+04F1", "U+04F3", "U+04F5", "U+04F7">>
    \o <<"U+04F9", "U+04FB", "U+04FD", "U+04FF", "U+0501", "U+0503", "U+0505", "U+0507">>
    \o <<"U+0509", "U+050B", "U+050D", "U+050F", "U+0511", "U+0513", "U+0515", "U+0517">>
    \o <<"U+0519", "U+051B", "U+051D", "U+051F", "U+0521", "U+0523", "U+0525", "U+0527">>
    \o <<"U+0529", "U+052B", "U+052D", "U+052F", "U+0561", "U+0562", "U+0563", "U+0564">>
    \o <<"U+0565", "U+0566", "U+0567", "U+0568", "U+0569", "U+056A", "U+056B", "U+056C">>
    \o <<"U+056D", "U+056E", "U+056F", "U+0570", "U+0571", "U+0572", "U+0573", "U+0574">>
    \o <<"U+0575", "U+0576", "U+0577", "U+0578", "U+0579", "U+057A", "U+057B", "U+057C">>
    \o <<"U+057D", "U+057E", "U+057F", "U+0580", "U+0581", "U+0582", "U+0583", "U+0584">>
    \o <<"U+0585", "U+0586", "U+0587", "U+10D0", "U+10D1", "U+10D2", "U+10D3", "U+10D4">>
    \o <<"U+10D5", "U+10D6", "U+10D7", "U+10D8", "U+10D9", "U+10DA", "U+10DB", "U+10DC">>
    \o <<"U+10DD", "U+10DE", "U+10DF", "U+10E0", "U+10E1", "U+10E2", "U+10E3", "U+10E4">>
    \o <<"U+10E5", "U+10E6", "U+10E7", "U+10E8", "U+10E9", "U+10EA", "U+10EB", "U+10EC">>
    \o <<"U+10ED", "U+10EE", "U+10EF", "U+10F0", "U+10F1", "U+10F2", "U+10F3", "U+10F4">>
    \o <<"U+10F5", "U+10F6", "U+10F7", "U+10F8", "U+10F9", "U+10FA", "U+10FD", "U+10FE">>
    \o <<"U+10FF", "U+13F8", "U+13F9", "U+13FA", "U+13FB", "U+13FC", "U+13FD", "U+1C80">>
    \o <<"U+1C81", "U+1C82", "U+1C83", "U+1C84", "U+1C85", "U+1C86", "U+1C87", "U+1C88">>
    \o <<"U+1D79", "U+1D7D", "U+1D8E", "U+1E01", "U+1E03", "U+1E05", "U+1E07", "U+1E09">>
    \o <<"U+1E0B", "U+1E0D", "U+1E0F", "U+1E11", "U+1E13", "U+1E15", "U+1E17", "U+1E19">>
    \o <<"U+1E1B", "U+1E1D", "U+1E1F", "U+1E21", "U+1E23", "U+1E25", "U+1E27", "U+1E29">>
    \o <<"U+1E2B", "U+1E2D", "U+1E2F", "U+1E31", "U+1E33", "U+1E35", "U+1E37", "U+1E39">>
    \o <<"U+1E3B", "U+1E3D", "U+1E3F", "U+1E41", "U+1E43", "U+1E45", "U+1E47", "U+1E49">>
    \o <<"U+1E4B", "U+1E4D", "U+1E4F", "U+1E51", "U+1E53", "U+1E55", "U+1E57", "U+1E59">>
    \o <<"U+1E5B", "U+1E5D", "U+1E5F", "U+1E61", "U+1E63", "U+1E65", "U+1E67", "U+1E69">>
    \o <<"U+1E6B", "U+1E6D", "U+1E6F", "U+1E71", "U+1E73", "U+1E75", "U+1E77", "U+1E79">>
    \o <<"U+1E7B", "U+1E7D", "U+1E7F", "U+1E81", "U+1E83", "U+1E85", "U+1E87", "U+1E89">>
    \o <<"U+1E8B", "U+1E8D", "U+1E8F", "U+1E91", "U+1E93", "U+1E95", "U+1E96", "U+1E97">>
    \o <<"U+1E98", "U+1E99", "U+1E9A", "U+1E9B", "U+1EA1", "U+1EA3", "U+1EA5", "U+1EA7">>
    \o <<"U+1EA9", "U+1EAB", "U+1EAD", "U+1EAF", "U+1EB1", "U+1EB3", "U+1EB5", "U+1EB7">>
    \o <<"U+1EB9", "U+1EBB", "U+1EBD", "U+1EBF", "U+1EC1", "U+1EC3", "U+1EC5", "U+1EC7">>
    \o <<"U+1EC9", "U+1ECB", "U+1ECD", "U+1ECF", "U+1ED1", "U+1ED3", "U+1ED5", "U+1ED7">>
    \o <<"U+1ED9", "U+1EDB", "U+1EDD", "U+1EDF", "U+1EE1", "U+1EE3", "U+1EE5", "U+1EE7">>
    \o <<"U+1EE9", "U+1EEB", "U+1EED", "U+1EEF", "U+1EF1", "U+1EF3", "U+1EF5", "U+1EF7">>
    \o <<"U+1EF9", "U+1EFB", "U+1EFD", "U+1EFF", "U+1F00", "U+1F01", "U+1F02", "U+1F03">>
    \o <<"U+1F04", "U+1F05", "U+1F06", "U+1F07", "U+1F10", "U+1F11", "U+1F12", "U+1F13">>
    \o <<"U+1F14", "U+1F15", "U+1F20", "U+1F21", "U+1F22", "U+1F23", "U+1F24", "U+1F25">>
    \o <<"U+1F26", "U+1F27", "U+1F30", "U+1F31", "U+1F32", "U+1F33", "U+1F34", "U+1F35">>
    \o <<"U+1F36", "U+1F37", "U+1F40", "U+1F41", "U+1F42", "U+1F43", "U+1F44", "U+1F45">>
    \o <<"U+1F50", "U+1F51", "U+1F52", "U+1F53", "U+1F54", "U+1F55", "U+1F56", "U+1F57">>
    \o <<"U+1F60", "U+1F61", "U+1F62", "U+1F63", "U+1F64", "U+1F65", "U+1F66", "U+1F67">>
    \o <<"U+1F70", "U+1F71", "U+1F72", "U+1F73", "U+1F74", "U+1F75", "U+1F76", "U+1F77">>
    \o <<"U+1F78", "U+1F79", "U+1F7A", "U+1F7B", "U+1F7C", "U+1F7D", "U+1F80", "U+1F81">>
    \o <<"U+1F82", "U+1F83", "U+1F84", "U+1F85", "U+1F86", "U+1F87", "U+1F88", "U+1F89">>
    \o <<"U+1F8A", "U+1F8B", "U+1F8C", "U+1F8D", "U+1F8E", "U+1F8F", "U+1F90", "U+1F91">>
    \o <<"U+1F92", "U+1F93", "U+1F94", "U+1F95", "U+1F96", "U+1F97", "U+1F98", "U+1F99">>
    \o <<"U+1F9A", "U+1F9B", "U+1F9C", "U+1F9D", "U+1F9E", "U+1F9F", "U+1FA0", "U+1FA1">>
    \o <<"U+1FA2", "U+1FA3", "U+1FA4", "U+1FA5", "U+1FA6", "U+1FA7", "U+1FA8", "U+1FA9">>
    \o <<"U+1FAA", "U+1FAB", "U+1FAC", "U+1FAD", "U+1FAE", "U+1FAF", "U+1FB0", "U+1FB1">>
    \o <<"U+1FB2", "U+1FB3", "U+1FB4", "U+1FB6", "U+1FB7", "U+1FBC", "U+1FBE", "U+1FC2">>
    \o <<"U+1FC3", "U+1FC4", "U+1FC6", "U+1FC7", "U+1FCC", "U+1FD0", "U+1FD1", "U+1FD2">>
    \o <<"U+1FD3", "U+1FD6", "U+1FD7", "U+1FE0", "U+1FE1", "U+1FE2", "U+1FE3", "U+1FE4">>
    \o <<"U+1FE5", "U+1FE6", "U+1FE7", "U+1FF2", "U+1FF3", "U+1FF4", "U+1FF6", "U+1FF7">>
    \o <<"U+1FFC", "U+214E", "U+2170", "U+2171", "U+2172", "U+2173", "U+2174", "U+2175">>
    \o <<"U+2176", "U+2177", "U+2178", "U+2179", "U+217A", "U+217B", "U+217C", "U+217D">>
    \o <<"U+217E", "U+217F", "U+2184", "U+24D0", "U+24D1", "U+24D2", "U+24D3", "U+24D4">>
    \o <<"U+24D5", "U+24D6", "U+24D7", "U+24D8", "U+24D9", "U+24DA", "U+24DB", "U+24DC">>
    \o <<"U+24DD", "U+24DE", "U+24DF", "U+24E0", "U+24E1", "U+24E2", "U+24E3", "U+24E4">>
    \o <<"U+24E5", "U+24E6", "U+24E7", "U+24E8", "U+24E9", "U+2C30", "U+2C31", "U+2C32">>
    \o <<"U+2C33", "U+2C34", "U+2C35", "U+2C36", "U+2C37", "U+2C38", "U+2C39", "U+2C3A">>
    \o <<"U+2C3B", "U+2C3C", "U+2C3D", "U+2C3E", "U+2C3F", "U+2C40", "U+2C41", "U+2C42">>
    \o <<"U+2C43", "U+2C44", "U+2C45", "U+2C46", "U+2C47", "U+2C48", "U+2C49", "U+2C4A">>
    \o <<"U+2C4B", "U+2C4C", "U+2C4D", "U+2C4E", "U+2C4F", "U+2C50", "U+2C51", "U+2C52">>
    \o <<"U+2C53", "U+2C54", "U+2C55", "U+2C56", "U+2C57", "U+2C58", "U+2C59", "U+2C5A">>
    \o <<"U+2C5B", "U+2C5C", "U+2C5D", "U+2C5E", "U+2C5F", "U+2C61", "U+2C65", "U+2C66">>
    \o <<"U+2C68", "U+2C6A", "U+2C6C", "U+2C73", "U+2C76", "U+2C81", "U+2C83", "U+2C85">>
    \o <<"U+2C87", "U+2C89", "U+2C8B", "U+2C8D", "U+2C8F", "U+2C91", "U+2C93", "U+2C95">>
    \o <<"U+2C97", "U+2C99", "U+2C9B", "U+2C9D", "U+2C9F", "U+2CA1", "U+2CA3", "U+2CA5">>
    \o <<"U+2CA7", "U+2CA9", "U+2CAB", "U+2CAD", "U+2CAF", "U+2CB1", "U+2CB3", "U+2CB5">>
    \o <<"U+2CB7", "U+2CB9", "U+2CBB", "U+2CBD", "U+2CBF", "U+2CC1", "U+2CC3", "U+2CC5">>
    \o <<"U+2CC7", "U+2CC9", "U+2CCB", "U+2CCD", "U+2CCF", "U+2CD1", "U+2CD3", "U+2CD5">>
    \o <<"U+2CD7", "U+2CD9", "U+2CDB", "U+2CDD", "U+2CDF", "U+2CE1", "U+2CE3", "U+2CEC">>
    \o <<"U+2CEE", "U+2CF3", "U+2D00", "U+2D01", "U+2D02", "U+2D03", "U+2D04", "U+2D05">>
    \o <<"U+2D06", "U+2D07", "U+2D08", "U+2D09", "U+2D0A", "U+2D0B", "U+2D0C", "U+2D0D">>
    \o <<"U+2D0E", "U+2D0F", "U+2D10", "U+2D11", "U+2D12", "U+2D13", "U+2D14", "U+2D15">>
    \o <<"U+2D16", "U+2D17", "U+2D18", "U+2D19", "U+2D1A", "U+2D1B", "U+2D1C", "U+2D1D">>
    \o <<"U+2D1E", "U+2D1F", "U+2D20", "U+2D21", "U+2D22", "U+2D23", "U+2D24", "U+2D25">>
    \o <<"U+2D27", "U+2D2D", "U+A641", "U+A643", "U+A645", "U+A647", "U+A649", "U+A64B">>
    \o <<"U+A64D", "U+A64F", "U+A651", "U+A653", "U+A655", "U+A657", "U+A659", "U+A65B">>
    \o <<"U+A65D", "U+A65F", "U+A661", "U+A663", "U+A665", "U+A667", "U+A669", "U+A66B">>
    \o <<"U+A66D", "U+A681", "U+A683", "U+A685", "U+A687", "U+A689", "U+A68B", "U+A68D">>
    \o <<"U+A68F", "U+A691", "U+A693", "U+A695", "U+A697", "U+A699", "U+A69B", "U+A723">>
    \o <<"U+A725", "U+A727", "U+A729", "U+A72B", "U+A72D", "U+A72F", "U+A733", "U+A735">>
    \o <<"U+A737", "U+A739", "U+A73B", "U+A73D", "U+A73F", "U+A741", "U+A743", "U+A745">>
    \o <<"U+A747", "U+A749", "U+A74B", "U+A74D", "U+A74F", "U+A751", "U+A753", "U+A755">>
    \o <<"U+A757", "U+A759", "U+A75B", "U+A75D", "U+A75F", "U+A761", "U+A763", "U+A765">>
    \o <<"U+A767", "U+A769", "U+A76B", "U+A76D", "U+A76F", "U+A77A", "U+A77C", "U+A77F">>
    \o <<"U+A781", "U+A783", "U+A785", "U+A787", "U+A78C", "U+A791", "U+A793", "U+A794">>
    \o <<"U+A797", "U+A799", "U+A79B", "U+A79D", "U+A79F", "U+A7A1", "U+A7A3", "U+A7A5">>
    \o <<"U+A7A7", "U+A7A9", "U+A7B5", "U+A7B7", "U+A7B9", "U+A7BB", "U+A7BD", "U+A7BF">>
    \o <<"U+A7C1", "U+A7C3", "U+A7C8", "U+A7CA", "U+A7D1", "U+A7D7", "U+A7D9", "U+A7F6">>
    \o <<"U+AB53", "U+AB70", "U+AB71", "U+AB72", "U+AB73", "U+AB74", "U+AB75", "U+AB76">>
    \o <<"U+AB77", "U+AB78", "U+AB79", "U+AB7A", "U+AB7B", "U+AB7C", "U+AB7D", "U+AB7E">>
    \o <<"U+AB7F", "U+AB80", "U+AB81", "U+AB82", "U+AB83", "U+AB84", "U+AB85", "U+AB86">>
    \o <<"U+AB87", "U+AB88", "U+AB89", "U+AB8A", "U+AB8B", "U+AB8C", "U+AB8D", "U+AB8E">>
    \o <<"U+AB8F", "U+AB90", "U+AB91", "U+AB92", "U+AB93", "U+AB94", "U+AB95", "U+AB96">>
    \o <<"U+AB97", "U+AB98", "U+AB99", "U+AB9A", "U+AB9B", "U+AB9C", "U+AB9D", "U+AB9E">>
    \o <<"U+AB9F", "U+ABA0", "U+ABA1", "U+ABA2", "U+ABA3", "U+ABA4", "U+ABA5", "U+ABA6">>
    \o <<"U+ABA7", "U+ABA8", "U+ABA9", "U+ABAA", "U+ABAB", "U+ABAC", "U+ABAD", "U+ABAE">>
    \o <<"U+ABAF", "U+ABB0", "U+ABB1", "U+ABB2", "U+ABB3", "U+ABB4", "U+ABB5", "U+ABB6">>
    \o <<"U+ABB7", "U+ABB8", "U+ABB9", "U+ABBA", "U+ABBB", "U+ABBC", "U+ABBD", "U+ABBE">>
    \o <<"U+ABBF", "U+FB00", "U+FB01", "U+FB02", "U+FB03", "U+FB04", "U+FB05", "U+FB06">>
    \o <<"U+FB13", "U+FB14", "U+FB15", "U+FB16", "U+FB17", "U+FF41", "U+FF42", "U+FF43">>
    \o <<"U+FF44", "U+FF45", "U+FF46", "U+FF47", "U+FF48", "U+FF49", "U+FF4A", "U+FF4B">>
    \o <<"U+FF4C", "U+FF4D", "U+FF4E", "U+FF4F", "U+FF50", "U+FF51", "U+FF52", "U+FF53">>
    \o <<"U+FF54", "U+FF55", "U+FF56", "U+FF57", "U+FF58", "U+FF59", "U+FF5A", "U+10428">>
    \o <<"U+10429", "U+1042A", "U+1042B", "U+1042C", "U+1042D", "U+1042E", "U+1042F", "U+10430">>
    \o <<"U+10431", "U+10432", "U+10433", "U+10434", "U+10435", "U+10436", "U+10437", "U+10438">>
    \o <<"U+10439", "U+1043A", "U+1043B", "U+1043C", "U+1043D", "U+1043E", "U+1043F", "U+10440">>
    \o <<"U+10441", "U+10442", "U+10443", "U+10444", "U+10445", "U+10446", "U+10447", "U+10448">>
    \o <<"U+10449", "U+1044A", "U+1044B", "U+1044C", "U+1044D", "U+1044E", "U+1044F", "U+104D8">>
    \o <<"U+104D9", "U+104DA", "U+104DB", "U+104DC", "U+104DD", "U+104DE", "U+104DF", "U+104E0">>
    \o <<"U+104E1", "U+104E2", "U+104E3", "U+104E4", "U+104E5", "U+104E6", "U+104E7", "U+104E8">>
    \o <<"U+104E9", "U+104EA", "U+104EB", "U+104EC", "U+104ED", "U+104EE", "U+104EF", "U+104F0">>
    \o <<"U+104F1", "U+104F2", "U+104F3", "U+104F4", "U+104F5", "U+104F6", "U+104F7", "U+104F8">>
    \o <<"U+104F9", "U+104FA", "U+104FB", "U+10597", "U+10598", "U+10599", "U+1059A", "U+1059B">>
    \o <<"U+1059C", "U+1059D", "U+1059E", "U+1059F", "U+105A0", "U+105A1", "U+105A3", "U+105A4">>
    \o <<"U+105A5", "U+105A6", "U+105A7", "U+105A8", "U+105A9", "U+105AA", "U+105AB", "U+105AC">>
    \o <<"U+105AD", "U+105AE", "U+105AF", "U+105B0", "U+105B1", "U+105B3", "U+105B4", "U+105B5">>
    \o <<"U+105B6", "U+105B7", "U+105B8", "U+105B9", "U+105BB", "U+105BC", "U+10CC0", "U+10CC1">>
    \o <<"U+10CC2", "U+10CC3", "U+10CC4", "U+10CC5", "U+10CC6", "U+10CC7", "U+10CC8", "U+10CC9">>
    \o <<"U+10CCA", "U+10CCB", "U+10CCC", "U+10CCD", "U+10CCE", "U+10CCF", "U+10CD0", "U+10CD1">>
    \o <<"U+10CD2", "U+10CD3", "U+10CD4", "U+10CD5", "U+10CD6", "U+10CD7", "U+10CD8", "U+10CD9">>
    \o <<"U+10CDA", "U+10CDB", "U+10CDC", "U+10CDD", "U+10CDE", "U+10CDF", "U+10CE0", "U+10CE1">>
    \o <<"U+10CE2", "U+10CE3", "U+10CE4", "U+10CE5", "U+10CE6", "U+10CE7", "U+10CE8", "U+10CE9">>
    \o <<"U+10CEA", "U+10CEB", "U+10CEC", "U+10CED", "U+10CEE", "U+10CEF", "U+10CF0", "U+10CF1">>
    \o <<"U+10CF2", "U+118C0", "U+118C1", "U+118C2", "U+118C3", "U+118C4", "U+118C5", "U+118C6">>
    \o <<"U+118C7", "U+118C8", "U+118C9", "U+118CA", "U+118CB", "U+118CC", "U+118CD", "U+118CE">>
    \o <<"U+118CF", "U+118D0", "U+118D1", "U+118D2", "U+118D3", "U+118D4", "U+118D5", "U+118D6">>
    \o <<"U+118D7", "U+118D8", "U+118D9", "U+118DA", "U+118DB", "U+118DC", "U+118DD", "U+118DE">>
    \o <<"U+118DF", "U+16E60", "U+16E61", "U+16E62", "U+16E63", "U+16E64", "U+16E65", "U+16E66">>
    \o <<"U+16E67", "U+16E68", "U+16E69", "U+16E6A", "U+16E6B", "U+16E6C", "U+16E6D", "U+16E6E">>
    \o <<"U+16E6F", "U+16E70", "U+16E71", "U+16E72", "U+16E73", "U+16E74", "U+16E75", "U+16E76">>
    \o <<"U+16E77", "U+16E78", "U+16E79", "U+16E7A", "U+16E7B", "U+16E7C", "U+16E7D", "U+16E7E">>
    \o <<"U+16E7F", "U+1E922", "U+1E923", "U+1E924", "U+1E925", "U+1E926", "U+1E927", "U+1E928">>
    \o <<"U+1E929", "U+1E92A", "U+1E92B", "U+1E92C", "U+1E92D", "U+1E92E", "U+1E92F", "U+1E930">>
    \o <<"U+1E931", "U+1E932", "U+1E933", "U+1E934", "U+1E935", "U+1E936", "U+1E937", "U+1E938">>
    \o <<"U+1E939", "U+1E93A", "U+1E93B", "U+1E93C", "U+1E93D", "U+1E93E", "U+1E93F", "U+1E940">>
    \o <<"U+1E941", "U+1E942", "U+1E943">>
UpperOfSeq ==
       <<<<"U+039C">>, <<"S", "S">>, <<"U+00C0">>, <<"U+00C1">>, <<"U+00C2">>, <<"U+00C3">>>>
    \o <<<<"U+00C4">>, <<"U+00C5">>, <<"U+00C6">>, <<"U+00C7">>, <<"U+00C8">>, <<"U+00C9">>>>
    \o <<<<"U+00CA">>, <<"U+00CB">>, <<"U+00CC">>, <<"U+00CD">>, <<"U+00CE">>, <<"U+00CF">>>>
    \o <<<<"U+00D0">>, <<"U+00D1">>, <<"U+00D2">>, <<"U+00D3">>, <<"U+00D4">>, <<"U+00D5">>>>
    \o <<<<"U+00D6">>, <<"U+00D8">>, <<"U+00D9">>, <<"U+00DA">>, <<"U+00DB">>, <<"U+00DC">>>>
    \o <<<<"U+00DD">>, <<"U+00DE">>, <<"U+0178">>, <<"U+0100">>, <<"U+0102">>, <<"U+0104">>>>
    \o <<<<"U+0106">>, <<"U+0108">>, <<"U+010A">>, <<"U+010C">>, <<"U+010E">>, <<"U+0110">>>>
    \o <<<<"U+0112">>, <<"U+0114">>, <<"U+0116">>, <<"U+0118">>, <<"U+011A">>, <<"U+011C">>>>
    \o <<<<"U+011E">>, <<"U+0120">>, <<"U+0122">>, <<"U+0124">>, <<"U+0126">>, <<"U+0128">>>>
    \o <<<<"U+012A">>, <<"U+012C">>, <<"U+012E">>, <<"I">>, <<"U+0132">>, <<"U+0134">>>>
    \o <<<<"U+0136">>, <<"U+0139">>, <<"U+013B">>, <<"U+013D">>, <<"U+013F">>, <<"U+0141">>>>
    \o <<<<"U+0143">>, <<"U+0145">>, <<"U+0147">>, <<"U+02BC", "N">>, <<"U+014A">>, <<"U+014C">>>>
    \o <<<<"U+014E">>, <<"U+0150">>, <<"U+0152">>, <<"U+0154">>, <<"U+0156">>, <<"U+0158">>>>
    \o <<<<"U+015A">>, <<"U+015C">>, <<"U+015E">>, <<"U+0160">>, <<"U+0162">>, <<"U+0164">>>>
    \o <<<<"U+0166">>, <<"U+0168">>, <<"U+016A">>, <<"U+016C">>, <<"U+016E">>, <<"U+0170">>>>
    \o <<<<"U+0172">>, <<"U+0174">>, <<"U+0176">>, <<"U+0179">>, <<"U+017B">>, <<"U+017D">>>>
    \o <<<<"S">>, <<"U+0243">>, <<"U+0182">>, <<"U+0184">>, <<"U+0187">>, <<"U+018B">>>>
    \o <<<<"U+0191">>, <<"U+01F6">>, <<"U+0198">>, <<"U+023D">>, <<"U+0220">>, <<"U+01A0">>>>
    \o <<<<"U+01A2">>, <<"U+01A4">>, <<"U+01A7">>, <<"U+01AC">>, <<"U+01AF">>, <<"U+01B3">>>>
    \o <<<<"U+01B5">>, <<"U+01B8">>, <<"U+01BC">>, <<"U+01F7">>, <<"U+01C4">>, <<"U+01C4">>>>
    \o <<<<"U+01C7">>, <<"U+01C7">>, <<"U+01CA">>, <<"U+01CA">>, <<"U+01CD">>, <<"U+01CF">>>>
    \o <<<<"U+01D1">>, <<"U+01D3">>, <<"U+01D5">>, <<"U+01D7">>, <<"U+01D9">>, <<"U+01DB">>>>
    \o <<<<"U+018E">>, <<"U+01DE">>, <<"U+01E0">>, <<"U+01E2">>, <<"U+01E4">>, <<"U+01E6">>>>
    \o <<<<"U+01E8">>, <<"U+01EA">>, <<"U+01EC">>, <<"U+01EE">>, <<"J", "U+030C">>, <<"U+01F1">>>>
    \o <<<<"U+01F1">>, <<"U+01F4">>, <<"U+01F8">>, <<"U+01FA">>, <<"U+01FC">>, <<"U+01FE">>>>
    \o <<<<"U+0200">>, <<"U+0202">>, <<"U+0204">>, <<"U+0206">>, <<"U+0208">>, <<"U+020A">>>>
    \o <<<<"U+020C">>, <<"U+020E">>, <<"U+0210">>, <<"U+0212">>, <<"U+0214">>, <<"U+0216">>>>
    \o <<<<"U+0218">>, <<"U+021A">>, <<"U+021C">>, <<"U+021E">>, <<"U+0222">>, <<"U+0224">>>>
    \o <<<<"U+0226">>, <<"U+0228">>, <<"U+022A">>, <<"U+022C">>, <<"U+022E">>, <<"U+0230">>>>
    \o <<<<"U+0232">>, <<"U+023B">>, <<"U+2C7E">>, <<"U+2C7F">>, <<"U+0241">>, <<"U+0246">>>>
    \o <<<<"U+0248">>, <<"U+024A">>, <<"U+024C">>, <<"U+024E">>, <<"U+2C6F">>, <<"U+2C6D">>>>
    \o <<<<"U+2C70">>, <<"U+0181">>, <<"U+0186">>, <<"U+0189">>, <<"U+018A">>, <<"U+018F">>>>
    \o <<<<"U+0190">>, <<"U+A7AB">>, <<"U+0193">>, <<"U+A7AC">>, <<"U+0194">>, <<"U+A78D">>>>
    \o <<<<"U+A7AA">>, <<"U+0197">>, <<"U+0196">>, <<"U+A7AE">>, <<"U+2C62">>, <<"U+A7AD">>>>
    \o <<<<"U+019C">>, <<"U+2C6E">>, <<"U+019D">>, <<"U+019F">>, <<"U+2C64">>, <<"U+01A6">>>>
    \o <<<<"U+A7C5">>, <<"U+01A9">>, <<"U+A7B1">>, <<"U+01AE">>, <<"U+0244">>, <<"U+01B1">>>>
    \o <<<<"U+01B2">>, <<"U+0245">>, <<"U+01B7">>, <<"U+A7B2">>, <<"U+A7B0">>, <<"U+0399">>>>
    \o <<<<"U+0370">>, <<"U+0372">>, <<"U+0376">>, <<"U+03FD">>, <<"U+03FE">>, <<"U+03FF">>>>
    \o <<<<"U+0399", "U+0308", "U+0301">>, <<"U+0386">>, <<"U+0388">>, <<"U+0389">>, <<"U+038A">>, <<"U+03A5", "U+0308", "U+0301">>>>
    \o <<<<"U+0391">>, <<"U+0392">>, <<"U+0393">>, <<"U+0394">>, <<"U+0395">>, <<"U+0396">>>>
    \o <<<<"U+0397">>, <<"U+0398">>, <<"U+0399">>, <<"U+039A">>, <<"U+039B">>, <<"U+039C">>>>
    \o <<<<"U+039D">>, <<"U+039E">>, <<"U+039F">>, <<"U+03A0">>, <<"U+03A1">>, <<"U+03A3">>>>
    \o <<<<"U+03A3">>, <<"U+03A4">>, <<"U+03A5">>, <<"U+03A6">>, <<"U+03A7">>, <<"U+03A8">>>>
    \o <<<<"U+03A9">>, <<"U+03AA">>, <<"U+03AB">>, <<"U+038C">>, <<"U+038E">>, <<"U+038F">>>>
    \o <<<<"U+0392">>, <<"U+0398">>, <<"U+03A6">>, <<"U+03A0">>, <<"U+03CF">>, <<"U+03D8">>>>
    \o <<<<"U+03DA">>, <<"U+03DC">>, <<"U+03DE">>, <<"U+03E0">>, <<"U+03E2">>, <<"U+03E4">>>>
    \o <<<<"U+03E6">>, <<"U+03E8">>, <<"U+03EA">>, <<"U+03EC">>, <<"U+03EE">>, <<"U+039A">>>>
    \o <<<<"U+03A1">>, <<"U+03F9">>, <<"U+037F">>, <<"U+0395">>, <<"U+03F7">>, <<"U+03FA">>>>
    \o <<<<"U+0410">>, <<"U+0411">>, <<"U+0412">>, <<"U+0413">>, <<"U+0414">>, <<"U+0415">>>>
    \o <<<<"U+0416">>, <<"U+0417">>, <<"U+0418">>, <<"U+0419">>, <<"U+041A">>, <<"U+041B">>>>
    \o <<<<"U+041C">>, <<"U+041D">>, <<"U+041E">>, <<"U+041F">>, <<"U+0420">>, <<"U+0421">>>>
    \o <<<<"U+0422">>, <<"U+0423">>, <<"U+0424">>, <<"U+0425">>, <<"U+0426">>, <<"U+0427">>>>
    \o <<<<"U+0428">>, <<"U+0429">>, <<"U+042A">>, <<"U+042B">>, <<"U+042C">>, <<"U+042D">>>>
    \o <<<<"U+042E">>, <<"U+042F">>, <<"U+0400">>, <<"U+0401">>, <<"U+0402">>, <<"U+0403">>>>
    \o <<<<"U+0404">>, <<"U+0405">>, <<"U+0406">>, <<"U+0407">>, <<"U+0408">>, <<"U+0409">>>>
    \o <<<<"U+040A">>, <<"U+040B">>, <<"U+040C">>, <<"U+040D">>, <<"U+040E">>, <<"U+040F">>>>
    \o <<<<"U+0460">>, <<"U+0462">>, <<"U+0464">>, <<"U+0466">>, <<"U+0468">>, <<"U+046A">>>>
    \o <<<<"U+046C">>, <<"U+046E">>, <<"U+0470">>, <<"U+0472">>, <<"U+0474">>, <<"U+0476">>>>
    \o <<<<"U+0478">>, <<"U+047A">>, <<"U+047C">>, <<"U+047E">>, <<"U+0480">>, <<"U+048A">>>>
    \o <<<<"U+048C">>, <<"U+048E">>, <<"U+0490">>, <<"U+0492">>, <<"U+0494">>, <<"U+0496">>>>
    \o <<<<"U+0498">>, <<"U+049A">>, <<"U+049C">>, <<"U+049E">>, <<"U+04A0">>, <<"U+04A2">>>>
    \o <<<<"U+04A4">>, <<"U+04A6">>, <<"U+04A8">>, <<"U+04AA">>, <<"U+04AC">>, <<"U+04AE">>>>
    \o <<<<"U+04B0">>, <<"U+04B2">>, <<"U+04B4">>, <<"U+04B6">>, <<"U+04B8">>, <<"U+04BA">>>>
    \o <<<<"U+04BC">>, <<"U+04BE">>, <<"U+04C1">>, <<"U+04C3">>, <<"U+04C5">>, <<"U+04C7">>>>
    \o <<<<"U+04C9">>, <<"U+04CB">>, <<"U+04CD">>, <<"U+04C0">>, <<"U+04D0">>, <<"U+04D2">>>>
    \o <<<<"U+04D4">>, <<"U+04D6">>, <<"U+04D8">>, <<"U+04DA">>, <<"U+04DC">>, <<"U+04DE">>>>
    \o <<<<"U+04E0">>, <<"U+04E2">>, <<"U+04E4">>, <<"U+04E6">>, <<"U+04E8">>, <<"U+04EA">>>>
    \o <<<<"U+04EC">>, <<"U+04EE">>, <<"U+04F0">>, <<"U+04F2">>, <<"U+04F4">>, <<"U+04F6">>>>
    \o <<<<"U+04F8">>, <<"U+04FA">>, <<"U+04FC">>, <<"U+04FE">>, <<"U+0500">>, <<"U+0502">>>>
    \o <<<<"U+0504">>, <<"U+0506">>, <<"U+0508">>, <<"U+050A">>, <<"U+050C">>, <<"U+050E">>>>
    \o <<<<"U+0510">>, <<"U+0512">>, <<"U+0514">>, <<"U+0516">>, <<"U+0518">>, <<"U+051A">>>>
    \o <<<<"U+051C">>, <<"U+051E">>, <<"U+0520">>, <<"U+0522">>, <<"U+0524">>, <<"U+0526">>>>
    \o <<<<"U+0528">>, <<"U+052A">>, <<"U+052C">>, <<"U+052E">>, <<"U+0531">>, <<"U+0532">>>>
    \o <<<<"U+0533">>, <<"U+0534">>, <<"U+0535">>, <<"U+0536">>, <<"U+0537">>, <<"U+0538">>>>
    \o <<<<"U+0539">>, <<"U+053A">>, <<"U+053B">>, <<"U+053C">>, <<"U+053D">>, <<"U+053E">>>>
    \o <<<<"U+053F">>, <<"U+0540">>, <<"U+0541">>, <<"U+0542">>, <<"U+0543">>, <<"U+0544">>>>
    \o <<<<"U+0545">>, <<"U+0546">>, <<"U+0547">>, <<"U+0548">>, <<"U+0549">>, <<"U+054A">>>>
    \o <<<<"U+054B">>, <<"U+054C">>, <<"U+054D">>, <<"U+054E">>, <<"U+054F">>, <<"U+0550">>>>
    \o <<<<"U+0551">>, <<"U+0552">>, <<"U+0553">>, <<"U+0554">>, <<"U+0555">>, <<"U+0556">>>>
    \o <<<<"U+0535", "U+0552">>, <<"U+1C90">>, <<"U+1C91">>, <<"U+1C92">>, <<"U+1C93">>, <<"U+1C94">>>>
    \o <<<<"U+1C95">>, <<"U+1C96">>, <<"U+1C97">>, <<"U+1C98">>, <<"U+1C99">>, <<"U+1C9A">>>>
    \o <<<<"U+1C9B">>, <<"U+1C9C">>, <<"U+1C9D">>, <<"U+1C9E">>, <<"U+1C9F">>, <<"U+1CA0">>>>
    \o <<<<"U+1CA1">>, <<"U+1CA2">>, <<"U+1CA3">>, <<"U+1CA4">>, <<"U+1CA5">>, <<"U+1CA6">>>>
    \o <<<<"U+1CA7">>, <<"U+1CA8">>, <<"U+1CA9">>, <<"U+1CAA">>, <<"U+1CAB">>, <<"U+1CAC">>>>
    \o <<<<"U+1CAD">>, <<"U+1CAE">>, <<"U+1CAF">>, <<"U+1CB0">>, <<"U+1CB1">>, <<"U+1CB2">>>>
    \o <<<<"U+1CB3">>, <<"U+1CB4">>, <<"U+1CB5">>, <<"U+1CB6">>, <<"U+1CB7">>, <<"U+1CB8">>>>
    \o <<<<"U+1CB9">>, <<"U+1CBA">>, <<"U+1CBD">>, <<"U+1CBE">>, <<"U+1CBF">>, <<"U+13F0">>>>
    \o <<<<"U+13F1">>, <<"U+13F2">>, <<"U+13F3">>, <<"U+13F4">>, <<"U+13F5">>, <<"U+0412">>>>
    \o <<<<"U+0414">>, <<"U+041E">>, <<"U+0421">>, <<"U+0422">>, <<"U+0422">>, <<"U+042A">>>>
    \o <<<<"U+0462">>, <<"U+A64A">>, <<"U+A77D">>, <<"U+2C63">>, <<"U+A7C6">>, <<"U+1E00">>>>
    \o <<<<"U+1E02">>, <<"U+1E04">>, <<"U+1E06">>, <<"U+1E08">>, <<"U+1E0A">>, <<"U+1E0C">>>>
    \o <<<<"U+1E0E">>, <<"U+1E10">>, <<"U+1E12">>, <<"U+1E14">>, <<"U+1E16">>, <<"U+1E18">>>>
    \o <<<<"U+1E1A">>, <<"U+1E1C">>, <<"U+1E1E">>, <<"U+1E20">>, <<"U+1E22">>, <<"U+1E24">>>>
    \o <<<<"U+1E26">>, <<"U+1E28">>, <<"U+1E2A">>, <<"U+1E2C">>, <<"U+1E2E">>, <<"U+1E30">>>>
    \o <<<<"U+1E32">>, <<"U+1E34">>, <<"U+1E36">>, <<"U+1E38">>, <<"U+1E3A">>, <<"U+1E3C">>>>
    \o <<<<"U+1E3E">>, <<"U+1E40">>, <<"U+1E42">>, <<"U+1E44">>, <<"U+1E46">>, <<"U+1E48">>>>
    \o <<<<"U+1E4A">>, <<"U+1E4C">>, <<"U+1E4E">>, <<"U+1E50">>, <<"U+1E52">>, <<"U+1E54">>>>
    \o <<<<"U+1E56">>, <<"U+1E58">>, <<"U+1E5A">>, <<"U+1E5C">>, <<"U+1E5E">>, <<"U+1E60">>>>
    \o <<<<"U+1E62">>, <<"U+1E64">>, <<"U+1E66">>, <<"U+1E68">>, <<"U+1E6A">>, <<"U+1E6C">>>>
    \o <<<<"U+1E6E">>, <<"U+1E70">>, <<"U+1E72">>, <<"U+1E74">>, <<"U+1E76">>, <<"U+1E78">>>>
    \o <<<<"U+1E7A">>, <<"U+1E7C">>, <<"U+1E7E">>, <<"U+1E80">>, <<"U+1E82">>, <<"U+1E84">>>>
    \o <<<<"U+1E86">>, <<"U+1E88">>, <<"U+1E8A">>, <<"U+1E8C">>, <<"U+1E8E">>, <<"U+1E90">>>>
    \o <<<<"U+1E92">>, <<"U+1E94">>, <<"H", "U+0331">>, <<"T", "U+0308">>, <<"W", "U+030A">>, <<"Y", "U+030A">>>>
    \o <<<<"A", "U+02BE">>, <<"U+1E60">>, <<"U+1EA0">>, <<"U+1EA2">>, <<"U+1EA4">>, <<"U+1EA6">>>>
    \o <<<<"U+1EA8">>, <<"U+1EAA">>, <<"U+1EAC">>, <<"U+1EAE">>, <<"U+1EB0">>, <<"U+1EB2">>>>
    \o <<<<"U+1EB4">>, <<"U+1EB6">>, <<"U+1EB8">>, <<"U+1EBA">>, <<"U+1EBC">>, <<"U+1EBE">>>>
    \o <<<<"U+1EC0">>, <<"U+1EC2">>, <<"U+1EC4">>, <<"U+1EC6">>, <<"U+1EC8">>, <<"U+1ECA">>>>
    \o <<<<"U+1ECC">>, <<"U+1ECE">>, <<"U+1ED0">>, <<"U+1ED2">>, <<"U+1ED4">>, <<"U+1ED6">>>>
    \o <<<<"U+1ED8">>, <<"U+1EDA">>, <<"U+1EDC">>, <<"U+1EDE">>, <<"U+1EE0">>, <<"U+1EE2">>>>
    \o <<<<"U+1EE4">>, <<"U+1EE6">>, <<"U+1EE8">>, <<"U+1EEA">>, <<"U+1EEC">>, <<"U+1EEE">>>>
    \o <<<<"U+1EF0">>, <<"U+1EF2">>, <<"U+1EF4">>, <<"U+1EF6">>, <<"U+1EF8">>, <<"U+1EFA">>>>
    \o <<<<"U+1EFC">>, <<"U+1EFE">>, <<"U+1F08">>, <<"U+1F09">>, <<"U+1F0A">>, <<"U+1F0B">>>>
    \o <<<<"U+1F0C">>, <<"U+1F0D">>, <<"U+1F0E">>, <<"U+1F0F">>, <<"U+1F18">>, <<"U+1F19">>>>
    \o <<<<"U+1F1A">>, <<"U+1F1B">>, <<"U+1F1C">>, <<"U+1F1D">>, <<"U+1F28">>, <<"U+1F29">>>>
    \o <<<<"U+1F2A">>, <<"U+1F2B">>, <<"U+1F2C">>, <<"U+1F2D">>, <<"U+1F2E">>, <<"U+1F2F">>>>
    \o <<<<"U+1F38">>, <<"U+1F39">>, <<"U+1F3A">>, <<"U+1F3B">>, <<"U+1F3C">>, <<"U+1F3D">>>>
    \o <<<<"U+1F3E">>, <<"U+1F3F">>, <<"U+1F48">>, <<"U+1F49">>, <<"U+1F4A">>, <<"U+1F4B">>>>
    \o <<<<"U+1F4C">>, <<"U+1F4D">>, <<"U+03A5", "U+0313">>, <<"U+1F59">>, <<"U+03A5", "U+0313", "U+0300">>, <<"U+1F5B">>>>
    \o <<<<"U+03A5", "U+0313", "U+0301">>, <<"U+1F5D">>, <<"U+03A5", "U+0313", "U+0342">>, <<"U+1F5F">>, <<"U+1F68">>, <<"U+1F69">>>>
    \o <<<<"U+1F6A">>, <<"U+1F6B">>, <<"U+1F6C">>, <<"U+1F6D">>, <<"U+1F6E">>, <<"U+1F6F">>>>
    \o <<<<"U+1FBA">>, <<"U+1FBB">>, <<"U+1FC8">>, <<"U+1FC9">>, <<"U+1FCA">>, <<"U+1FCB">>>>
    \o <<<<"U+1FDA">>, <<"U+1FDB">>, <<"U+1FF8">>, <<"U+1FF9">>, <<"U+1FEA">>, <<"U+1FEB">>>>
    \o <<<<"U+1FFA">>, <<"U+1FFB">>, <<"U+1F08", "U+0399">>, <<"U+1F09", "U+0399">>, <<"U+1F0A", "U+0399">>, <<"U+1F0B", "U+0399">>>>
    \o <<<<"U+1F0C", "U+0399">>, <<"U+1F0D", "U+0399">>, <<"U+1F0E", "U+0399">>, <<"U+1F0F", "U+0399">>, <<"U+1F08", "U+0399">>, <<"U+1F09", "U+0399">>>>
    \o <<<<"U+1F0A", "U+0399">>, <<"U+1F0B", "U+0399">>, <<"U+1F0C", "U+0399">>, <<"U+1F0D", "U+0399">>, <<"U+1F0E", "U+0399">>, <<"U+1F0F", "U+0399">>>>
    \o <<<<"U+1F28", "U+0399">>, <<"U+1F29", "U+0399">>, <<"U+1F2A", "U+0399">>, <<"U+1F2B", "U+0399">>, <<"U+1F2C", "U+0399">>, <<"U+1F2D", "U+0399">>>>
    \o <<<<"U+1F2E", "U+0399">>, <<"U+1F2F", "U+0399">>, <<"U+1F28", "U+0399">>, <<"U+1F29", "U+0399">>, <<"U+1F2A", "U+0399">>, <<"U+1F2B", "U+0399">>>>
    \o <<<<"U+1F2C", "U+0399">>, <<"U+1F2D", "U+0399">>, <<"U+1F2E", "U+0399">>, <<"U+1F2F", "U+0399">>, <<"U+1F68", "U+0399">>, <<"U+1F69", "U+0399">>>>
    \o <<<<"U+1F6A", "U+0399">>, <<"U+1F6B", "U+0399">>, <<"U+1F6C", "U+0399">>, <<"U+1F6D", "U+0399">>, <<"U+1F6E", "U+0399">>, <<"U+1F6F", "U+0399">>>>
    \o <<<<"U+1F68", "U+0399">>, <<"U+1F69", "U+0399">>, <<"U+1F6A", "U+0399">>, <<"U+1F6B", "U+0399">>, <<"U+1F6C", "U+0399">>, <<"U+1F6D", "U+0399">>>>
    \o <<<<"U+1F6E", "U+0399">>, <<"U+1F6F", "U+0399">>, <<"U+1FB8">>, <<"U+1FB9">>, <<"U+1FBA", "U+0399">>, <<"U+0391", "U+0399">>>>
    \o <<<<"U+0386", "U+0399">>, <<"U+0391", "U+0342">>, <<"U+0391", "U+0342", "U+0399">>, <<"U+0391", "U+0399">>, <<"U+0399">>, <<"U+1FCA", "U+0399">>>>
    \o <<<<"U+0397", "U+0399">>, <<"U+0389", "U+0399">>, <<"U+0397", "U+0342">>, <<"U+0397", "U+0342", "U+0399">>, <<"U+0397", "U+0399">>, <<"U+1FD8">>>>
    \o <<<<"U+1FD9">>, <<"U+0399", "U+0308", "U+0300">>, <<"U+0399", "U+0308", "U+0301">>, <<"U+0399", "U+0342">>, <<"U+0399", "U+0308", "U+0342">>, <<"U+1FE8">>>>
    \o <<<<"U+1FE9">>, <<"U+03A5", "U+0308", "U+0300">>, <<"U+03A5", "U+0308", "U+0301">>, <<"U+03A1", "U+0313">>, <<"U+1FEC">>, <<"U+03A5", "U+0342">>>>
    \o <<<<"U+03A5", "U+0308", "U+0342">>, <<"U+1FFA", "U+0399">>, <<"U+03A9", "U+0399">>, <<"U+038F", "U+0399">>, <<"U+03A9", "U+0342">>, <<"U+03A9", "U+0342", "U+0399">>>>
    \o <<<<"U+03A9", "U+0399">>, <<"U+2132">>, <<"U+2160">>, <<"U+2161">>, <<"U+2162">>, <<"U+2163">>>>
    \o <<<<"U+2164">>, <<"U+2165">>, <<"U+2166">>, <<"U+2167">>, <<"U+2168">>, <<"U+2169">>>>
    \o <<<<"U+216A">>, <<"U+216B">>, <<"U+216C">>, <<"U+216D">>, <<"U+216E">>, <<"U+216F">>>>
    \o <<<<"U+2183">>, <<"U+24B6">>, <<"U+24B7">>, <<"U+24B8">>, <<"U+24B9">>, <<"U+24BA">>>>
    \o <<<<"U+24BB">>, <<"U+24BC">>, <<"U+24BD">>, <<"U+24BE">>, <<"U+24BF">>, <<"U+24C0">>>>
    \o <<<<"U+24C1">>, <<"U+24C2">>, <<"U+24C3">>, <<"U+24C4">>, <<"U+24C5">>, <<"U+24C6">>>>
    \o <<<<"U+24C7">>, <<"U+24C8">>, <<"U+24C9">>, <<"U+24CA">>, <<"U+24CB">>, <<"U+24CC">>>>
    \o <<<<"U+24CD">>, <<"U+24CE">>, <<"U+24CF">>, <<"U+2C00">>, <<"U+2C01">>, <<"U+2C02">>>>
    \o <<<<"U+2C03">>, <<"U+2C04">>, <<"U+2C05">>, <<"U+2C06">>, <<"U+2C07">>, <<"U+2C08">>>>
    \o <<<<"U+2C09">>, <<"U+2C0A">>, <<"U+2C0B">>, <<"U+2C0C">>, <<"U+2C0D">>, <<"U+2C0E">>>>
    \o <<<<"U+2C0F">>, <<"U+2C10">>, <<"U+2C11">>, <<"U+2C12">>, <<"U+2C13">>, <<"U+2C14">>>>
    \o <<<<"U+2C15">>, <<"U+2C16">>, <<"U+2C17">>, <<"U+2C18">>, <<"U+2C19">>, <<"U+2C1A">>>>
    \o <<<<"U+2C1B">>, <<"U+2C1C">>, <<"U+2C1D">>, <<"U+2C1E">>, <<"U+2C1F">>, <<"U+2C20">>>>
    \o <<<<"U+2C21">>, <<"U+2C22">>, <<"U+2C23">>, <<"U+2C24">>, <<"U+2C25">>, <<"U+2C26">>>>
    \o <<<<"U+2C27">>, <<"U+2C28">>, <<"U+2C29">>, <<"U+2C2A">>, <<"U+2C2B">>, <<"U+2C2C">>>>
    \o <<<<"U+2C2D">>, <<"U+2C2E">>, <<"U+2C2F">>, <<"U+2C60">>, <<"U+023A">>, <<"U+023E">>>>
    \o <<<<"U+2C67">>, <<"U+2C69">>, <<"U+2C6B">>, <<"U+2C72">>, <<"U+2C75">>, <<"U+2C80">>>>
    \o <<<<"U+2C82">>, <<"U+2C84">>, <<"U+2C86">>, <<"U+2C88">>, <<"U+2C8A">>, <<"U+2C8C">>>>
    \o <<<<"U+2C8E">>, <<"U+2C90">>, <<"U+2C92">>, <<"U+2C94">>, <<"U+2C96">>, <<"U+2C98">>>>
    \o <<<<"U+2C9A">>, <<"U+2C9C">>, <<"U+2C9E">>, <<"U+2CA0">>, <<"U+2CA2">>, <<"U+2CA4">>>>
    \o <<<<"U+2CA6">>, <<"U+2CA8">>, <<"U+2CAA">>, <<"U+2CAC">>, <<"U+2CAE">>, <<"U+2CB0">>>>
    \o <<<<"U+2CB2">>, <<"U+2CB4">>, <<"U+2CB6">>, <<"U+2CB8">>, <<"U+2CBA">>, <<"U+2CBC">>>>
    \o <<<<"U+2CBE">>, <<"U+2CC0">>, <<"U+2CC2">>, <<"U+2CC4">>, <<"U+2CC6">>, <<"U+2CC8">>>>
    \o <<<<"U+2CCA">>, <<"U+2CCC">>, <<"U+2CCE">>, <<"U+2CD0">>, <<"U+2CD2">>, <<"U+2CD4">>>>
    \o <<<<"U+2CD6">>, <<"U+2CD8">>, <<"U+2CDA">>, <<"U+2CDC">>, <<"U+2CDE">>, <<"U+2CE0">>>>
    \o <<<<"U+2CE2">>, <<"U+2CEB">>, <<"U+2CED">>, <<"U+2CF2">>, <<"U+10A0">>, <<"U+10A1">>>>
    \o <<<<"U+10A2">>, <<"U+10A3">>, <<"U+10A4">>, <<"U+10A5">>, <<"U+10A6">>, <<"U+10A7">>>>
    \o <<<<"U+10A8">>, <<"U+10A9">>, <<"U+10AA">>, <<"U+10AB">>, <<"U+10AC">>, <<"U+10AD">>>>
    \o <<<<"U+10AE">>, <<"U+10AF">>, <<"U+10B0">>, <<"U+10B1">>, <<"U+10B2">>, <<"U+10B3">>>>
    \o <<<<"U+10B4">>, <<"U+10B5">>, <<"U+10B6">>, <<"U+10B7">>, <<"U+10B8">>, <<"U+10B9">>>>
    \o <<<<"U+10BA">>, <<"U+10BB">>, <<"U+10BC">>, <<"U+10BD">>, <<"U+10BE">>, <<"U+10BF">>>>
    \o <<<<"U+10C0">>, <<"U+10C1">>, <<"U+10C2">>, <<"U+10C3">>, <<"U+10C4">>, <<"U+10C5">>>>
    \o <<<<"U+10C7">>, <<"U+10CD">>, <<"U+A640">>, <<"U+A642">>, <<"U+A644">>, <<"U+A646">>>>
    \o <<<<"U+A648">>, <<"U+A64A">>, <<"U+A64C">>, <<"U+A64E">>, <<"U+A650">>, <<"U+A652">>>>
    \o <<<<"U+A654">>, <<"U+A656">>, <<"U+A658">>, <<"U+A65A">>, <<"U+A65C">>, <<"U+A65E">>>>
    \o <<<<"U+A660">>, <<"U+A662">>, <<"U+A664">>, <<"U+A666">>, <<"U+A668">>, <<"U+A66A">>>>
    \o <<<<"U+A66C">>, <<"U+A680">>, <<"U+A682">>, <<"U+A684">>, <<"U+A686">>, <<"U+A688">>>>
    \o <<<<"U+A68A">>, <<"U+A68C">>, <<"U+A68E">>, <<"U+A690">>, <<"U+A692">>, <<"U+A694">>>>
    \o <<<<"U+A696">>, <<"U+A698">>, <<"U+A69A">>, <<"U+A722">>, <<"U+A724">>, <<"U+A726">>>>
    \o <<<<"U+A728">>, <<"U+A72A">>, <<"U+A72C">>, <<"U+A72E">>, <<"U+A732">>, <<"U+A734">>>>
    \o <<<<"U+A736">>, <<"U+A738">>, <<"U+A73A">>, <<"U+A73C">>, <<"U+A73E">>, <<"U+A740">>>>
    \o <<<<"U+A742">>, <<"U+A744">>, <<"U+A746">>, <<"U+A748">>, <<"U+A74A">>, <<"U+A74C">>>>
    \o <<<<"U+A74E">>, <<"U+A750">>, <<"U+A752">>, <<"U+A754">>, <<"U+A756">>, <<"U+A758">>>>
    \o <<<<"U+A75A">>, <<"U+A75C">>, <<"U+A75E">>, <<"U+A760">>, <<"U+A762">>, <<"U+A764">>>>
    \o <<<<"U+A766">>, <<"U+A768">>, <<"U+A76A">>, <<"U+A76C">>, <<"U+A76E">>, <<"U+A779">>>>
    \o <<<<"U+A77B">>, <<"U+A77E">>, <<"U+A780">>, <<"U+A782">>, <<"U+A784">>, <<"U+A786">>>>
    \o <<<<"U+A78B">>, <<"U+A790">>, <<"U+A792">>, <<"U+A7C4">>, <<"U+A796">>, <<"U+A798">>>>
    \o <<<<"U+A79A">>, <<"U+A79C">>, <<"U+A79E">>, <<"U+A7A0">>, <<"U+A7A2">>, <<"U+A7A4">>>>
    \o <<<<"U+A7A6">>, <<"U+A7A8">>, <<"U+A7B4">>, <<"U+A7B6">>, <<"U+A7B8">>, <<"U+A7BA">>>>
    \o <<<<"U+A7BC">>, <<"U+A7BE">>, <<"U+A7C0">>, <<"U+A7C2">>, <<"U+A7C7">>, <<"U+A7C9">>>>
    \o <<<<"U+A7D0">>, <<"U+A7D6">>, <<"U+A7D8">>, <<"U+A7F5">>, <<"U+A7B3">>, <<"U+13A0">>>>
    \o <<<<"U+13A1">>, <<"U+13A2">>, <<"U+13A3">>, <<"U+13A4">>, <<"U+13A5">>, <<"U+13A6">>>>
    \o <<<<"U+13A7">>, <<"U+13A8">>, <<"U+13A9">>, <<"U+13AA">>, <<"U+13AB">>, <<"U+13AC">>>>
    \o <<<<"U+13AD">>, <<"U+13AE">>, <<"U+13AF">>, <<"U+13B0">>, <<"U+13B1">>, <<"U+13B2">>>>
    \o <<<<"U+13B3">>, <<"U+13B4">>, <<"U+13B5">>, <<"U+13B6">>, <<"U+13B7">>, <<"U+13B8">>>>
    \o <<<<"U+13B9">>, <<"U+13BA">>, <<"U+13BB">>, <<"U+13BC">>, <<"U+13BD">>, <<"U+13BE">>>>
    \o <<<<"U+13BF">>, <<"U+13C0">>, <<"U+13C1">>, <<"U+13C2">>, <<"U+13C3">>, <<"U+13C4">>>>
    \o <<<<"U+13C5">>, <<"U+13C6">>, <<"U+13C7">>, <<"U+13C8">>, <<"U+13C9">>, <<"U+13CA">>>>
    \o <<<<"U+13CB">>, <<"U+13CC">>, <<"U+13CD">>, <<"U+13CE">>, <<"U+13CF">>, <<"U+13D0">>>>
    \o <<<<"U+13D1">>, <<"U+13D2">>, <<"U+13D3">>, <<"U+13D4">>, <<"U+13D5">>, <<"U+13D6">>>>
    \o <<<<"U+13D7">>, <<"U+13D8">>, <<"U+13D9">>, <<"U+13DA">>, <<"U+13DB">>, <<"U+13DC">>>>
    \o <<<<"U+13DD">>, <<"U+13DE">>, <<"U+13DF">>, <<"U+13E0">>, <<"U+13E1">>, <<"U+13E2">>>>
    \o <<<<"U+13E3">>, <<"U+13E4">>, <<"U+13E5">>, <<"U+13E6">>, <<"U+13E7">>, <<"U+13E8">>>>
    \o <<<<"U+13E9">>, <<"U+13EA">>, <<"U+13EB">>, <<"U+13EC">>, <<"U+13ED">>, <<"U+13EE">>>>
    \o <<<<"U+13EF">>, <<"F", "F">>, <<"F", "I">>, <<"F", "L">>, <<"F", "F", "I">>, <<"F", "F", "L">>>>
    \o <<<<"S", "T">>, <<"S", "T">>, <<"U+0544", "U+0546">>, <<"U+0544", "U+0535">>, <<"U+0544", "U+053B">>, <<"U+054E", "U+0546">>>>
    \o <<<<"U+0544", "U+053D">>, <<"U+FF21">>, <<"U+FF22">>, <<"U+FF23">>, <<"U+FF24">>, <<"U+FF25">>>>
    \o <<<<"U+FF26">>, <<"U+FF27">>, <<"U+FF28">>, <<"U+FF29">>, <<"U+FF2A">>, <<"U+FF2B">>>>
    \o <<<<"U+FF2C">>, <<"U+FF2D">>, <<"U+FF2E">>, <<"U+FF2F">>, <<"U+FF30">>, <<"U+FF31">>>>
    \o <<<<"U+FF32">>, <<"U+FF33">>, <<"U+FF34">>, <<"U+FF35">>, <<"U+FF36">>, <<"U+FF37">>>>
    \o <<<<"U+FF38">>, <<"U+FF39">>, <<"U+FF3A">>, <<"U+10400">>, <<"U+10401">>, <<"U+10402">>>>
    \o <<<<"U+10403">>, <<"U+10404">>, <<"U+10405">>, <<"U+10406">>, <<"U+10407">>, <<"U+10408">>>>
    \o <<<<"U+10409">>, <<"U+1040A">>, <<"U+1040B">>, <<"U+1040C">>, <<"U+1040D">>, <<"U+1040E">>>>
    \o <<<<"U+1040F">>, <<"U+10410">>, <<"U+10411">>, <<"U+10412">>, <<"U+10413">>, <<"U+10414">>>>
    \o <<<<"U+10415">>, <<"U+10416">>, <<"U+10417">>, <<"U+10418">>, <<"U+10419">>, <<"U+1041A">>>>
    \o <<<<"U+1041B">>, <<"U+1041C">>, <<"U+1041D">>, <<"U+1041E">>, <<"U+1041F">>, <<"U+10420">>>>
    \o <<<<"U+10421">>, <<"U+10422">>, <<"U+10423">>, <<"U+10424">>, <<"U+10425">>, <<"U+10426">>>>
    \o <<<<"U+10427">>, <<"U+104B0">>, <<"U+104B1">>, <<"U+104B2">>, <<"U+104B3">>, <<"U+104B4">>>>
    \o <<<<"U+104B5">>, <<"U+104B6">>, <<"U+104B7">>, <<"U+104B8">>, <<"U+104B9">>, <<"U+104BA">>>>
    \o <<<<"U+104BB">>, <<"U+104BC">>, <<"U+104BD">>, <<"U+104BE">>, <<"U+104BF">>, <<"U+104C0">>>>
    \o <<<<"U+104C1">>, <<"U+104C2">>, <<"U+104C3">>, <<"U+104C4">>, <<"U+104C5">>, <<"U+104C6">>>>
    \o <<<<"U+104C7">>, <<"U+104C8">>, <<"U+104C9">>, <<"U+104CA">>, <<"U+104CB">>, <<"U+104CC">>>>
    \o <<<<"U+104CD">>, <<"U+104CE">>, <<"U+104CF">>, <<"U+104D0">>, <<"U+104D1">>, <<"U+104D2">>>>
    \o <<<<"U+104D3">>, <<"U+10570">>, <<"U+10571">>, <<"U+10572">>, <<"U+10573">>, <<"U+10574">>>>
    \o <<<<"U+10575">>, <<"U+10576">>, <<"U+10577">>, <<"U+10578">>, <<"U+10579">>, <<"U+1057A">>>>
    \o <<<<"U+1057C">>, <<"U+1057D">>, <<"U+1057E">>, <<"U+1057F">>, <<"U+10580">>, <<"U+10581">>>>
    \o <<<<"U+10582">>, <<"U+10583">>, <<"U+10584">>, <<"U+10585">>, <<"U+10586">>, <<"U+10587">>>>
    \o <<<<"U+10588">>, <<"U+10589">>, <<"U+1058A">>, <<"U+1058C">>, <<"U+1058D">>, <<"U+1058E">>>>
    \o <<<<"U+1058F">>, <<"U+10590">>, <<"U+10591">>, <<"U+10592">>, <<"U+10594">>, <<"U+10595">>>>
    \o <<<<"U+10C80">>, <<"U+10C81">>, <<"U+10C82">>, <<"U+10C83">>, <<"U+10C84">>, <<"U+10C85">>>>
    \o <<<<"U+10C86">>, <<"U+10C87">>, <<"U+10C88">>, <<"U+10C89">>, <<"U+10C8A">>, <<"U+10C8B">>>>
    \o <<<<"U+10C8C">>, <<"U+10C8D">>, <<"U+10C8E">>, <<"U+10C8F">>, <<"U+10C90">>, <<"U+10C91">>>>
    \o <<<<"U+10C92">>, <<"U+10C93">>, <<"U+10C94">>, <<"U+10C95">>, <<"U+10C96">>, <<"U+10C97">>>>
    \o <<<<"U+10C98">>, <<"U+10C99">>, <<"U+10C9A">>, <<"U+10C9B">>, <<"U+10C9C">>, <<"U+10C9D">>>>
    \o <<<<"U+10C9E">>, <<"U+10C9F">>, <<"U+10CA0">>, <<"U+10CA1">>, <<"U+10CA2">>, <<"U+10CA3">>>>
    \o <<<<"U+10CA4">>, <<"U+10CA5">>, <<"U+10CA6">>, <<"U+10CA7">>, <<"U+10CA8">>, <<"U+10CA9">>>>
    \o <<<<"U+10CAA">>, <<"U+10CAB">>, <<"U+10CAC">>, <<"U+10CAD">>, <<"U+10CAE">>, <<"U+10CAF">>>>
    \o <<<<"U+10CB0">>, <<"U+10CB1">>, <<"U+10CB2">>, <<"U+118A0">>, <<"U+118A1">>, <<"U+118A2">>>>
    \o <<<<"U+118A3">>, <<"U+118A4">>, <<"U+118A5">>, <<"U+118A6">>, <<"U+118A7">>, <<"U+118A8">>>>
    \o <<<<"U+118A9">>, <<"U+118AA">>, <<"U+118AB">>, <<"U+118AC">>, <<"U+118AD">>, <<"U+118AE">>>>
    \o <<<<"U+118AF">>, <<"U+118B0">>, <<"U+118B1">>, <<"U+118B2">>, <<"U+118B3">>, <<"U+118B4">>>>
    \o <<<<"U+118B5">>, <<"U+118B6">>, <<"U+118B7">>, <<"U+118B8">>, <<"U+118B9">>, <<"U+118BA">>>>
    \o <<<<"U+118BB">>, <<"U+118BC">>, <<"U+118BD">>, <<"U+118BE">>, <<"U+118BF">>, <<"U+16E40">>>>
    \o <<<<"U+16E41">>, <<"U+16E42">>, <<"U+16E43">>, <<"U+16E44">>, <<"U+16E45">>, <<"U+16E46">>>>
    \o <<<<"U+16E47">>, <<"U+16E48">>, <<"U+16E49">>, <<"U+16E4A">>, <<"U+16E4B">>, <<"U+16E4C">>>>
    \o <<<<"U+16E4D">>, <<"U+16E4E">>, <<"U+16E4F">>, <<"U+16E50">>, <<"U+16E51">>, <<"U+16E52">>>>
    \o <<<<"U+16E53">>, <<"U+16E54">>, <<"U+16E55">>, <<"U+16E56">>, <<"U+16E57">>, <<"U+16E58">>>>
    \o <<<<"U+16E59">>, <<"U+16E5A">>, <<"U+16E5B">>, <<"U+16E5C">>, <<"U+16E5D">>, <<"U+16E5E">>>>
    \o <<<<"U+16E5F">>, <<"U+1E900">>, <<"U+1E901">>, <<"U+1E902">>, <<"U+1E903">>, <<"U+1E904">>>>
    \o <<<<"U+1E905">>, <<"U+1E906">>, <<"U+1E907">>, <<"U+1E908">>, <<"U+1E909">>, <<"U+1E90A">>>>
    \o <<<<"U+1E90B">>, <<"U+1E90C">>, <<"U+1E90D">>, <<"U+1E90E">>, <<"U+1E90F">>, <<"U+1E910">>>>
    \o <<<<"U+1E911">>, <<"U+1E912">>, <<"U+1E913">>, <<"U+1E914">>, <<"U+1E915">>, <<"U+1E916">>>>
    \o <<<<"U+1E917">>, <<"U+1E918">>, <<"U+1E919">>, <<"U+1E91A">>, <<"U+1E91B">>, <<"U+1E91C">>>>
    \o <<<<"U+1E91D">>, <<"U+1E91E">>, <<"U+1E91F">>, <<"U+1E920">>, <<"U+1E921">>>>
Cased == Range(CasedSeq)

IndexOf(s, c) == CHOOSE i \in DOMAIN s : s[i] = c

\* str.upper() of one character, as a str
UpperChar(c) == IF c \in Lower THEN <<UpperSeq[IndexOf(LowerSeq, c)]>>
                ELSE IF c \in Upper \cup AsciiDigits THEN <<c>>
                ELSE IF c \in Cased THEN UpperOfSeq[IndexOf(CasedSeq, c)]
                ELSE <<c>>
\* str.upper()
RECURSIVE StrUpper(_)
StrUpper(s) ==
    IF s = <<>> THEN <<>>
    ELSE IF Len(s) = 1 THEN UpperChar(s[1])
    ELSE LET half == Len(s) \div 2
         IN StrUpper(SubSeq(s, 1, half)) \o StrUpper(SubSeq(s, half + 1, Len(s)))

\* int(c) of one decimal digit
DigitVal(c) == IF c \in AsciiDigits THEN IndexOf(DigitSeq, c) - 1
               ELSE (IndexOf(UnicodeDigitSeq, c) - 1) % 10
\* the number a run of decimal digits denotes, for numbers below 2^31
RECURSIVE IntOf(_)
IntOf(s) == IF s = <<>> THEN 0
            ELSE 10 * IntOf(SubSeq(s, 1, Len(s) - 1)) + DigitVal(s[Len(s)])
\* a run of decimal digits without its leading zeros
Significant(s) ==
    IF \A i \in DOMAIN s : DigitVal(s[i]) = 0 THEN <<>>
    ELSE SubSeq(s, CHOOSE i \in DOMAIN s :
                       /\ DigitVal(s[i]) # 0
                       /\ \A j \in 1..(i - 1) : DigitVal(s[j]) = 0,
                Len(s))
\* lo <= int(s) <= hi for a run of decimal digits s and hi < 10^9: a run of
\* ten or more significant digits denotes a number above hi
IntBetween(s, lo, hi) ==
    LET digits == Significant(s)
    IN Len(digits) <= 9 /\ IntOf(digits) \in lo..hi

\* the characters of s that are in set keep, in order
Filter(s, keep) == SelectSeq(s, LAMBDA c : c \in keep)

\* s without its leading, and without its trailing, characters of set chars
LStripOf(s, chars) ==
    IF \A i \in DOMAIN s : s[i] \in chars THEN <<>>
    ELSE SubSeq(s, CHOOSE i \in DOMAIN s :
                       /\ s[i] \notin chars
                       /\ \A j \in 1..(i - 1) : s[j] \in chars,
                Len(s))
RStripOf(s, chars) ==
    IF \A i \in DOMAIN s : s[i] \in chars THEN <<>>
    ELSE SubSeq(s, 1, CHOOSE i \in DOMAIN s :
                          /\ s[i] \notin chars
                          /\ \A j \in (i + 1)..Len(s) : s[j] \in chars)

\* str.lstrip(), str.rstrip(), str.strip()
LStrip(s) == LStripOf(s, Whitespace)
RStrip(s) == RStripOf(s, Whitespace)
Strip(s) == RStrip(LStrip(s))

\* int(s), the parts of s: the text between the whitespace around it, its
\* sign and what follows the sign
IntText(s) == RStripOf(LStripOf(s, IntWhitespace), IntWhitespace)
IntSign(s) == IF IntText(s) # <<>> /\ Head(IntText(s)) \in {"+", "-"}
              THEN Head(IntText(s)) ELSE "+"
IntBody(s) == IF IntText(s) # <<>> /\ Head(IntText(s)) \in {"+", "-"}
              THEN Tail(IntText(s)) ELSE IntText(s)
\* sys.get_int_max_str_digits(): int(s) raises ValueError for a text of more
\* decimal digits, leading zeros counted
IntMaxStrDigits == 4300
\* int(s) does not raise ValueError: decimal digits, single underscores
\* between them, a sign before them and whitespace around, and no more than
\* IntMaxStrDigits digits
IsIntLiteral(s) ==
    LET body == IntBody(s)
    IN /\ body # <<>>
       /\ Len(Filter(body, Digits)) <= IntMaxStrDigits
       /\ \A i \in DOMAIN body : body[i] \in Digits \cup {"_"}
       /\ body[1] # "_" /\ body[Len(body)] # "_"
       /\ \A i \in 1..(Len(body) - 1) : ~(body[i] = "_" /\ body[i + 1] = "_")
\* int(s) where it does not raise
PyInt(s) == LET n == IntOf(Significant(Filter(IntBody(s), Digits)))
            IN IF IntSign(s) = "-" THEN 0 - n ELSE n

\* the longest prefix of s made of digits
DigitPrefix(s) ==
    IF s = <<>> \/ s[1] \notin Digits THEN <<>>
    ELSE SubSeq(s, 1, CHOOSE j \in DOMAIN s :
                          /\ j = Len(s) \/ s[j + 1] \notin Digits
                          /\ \A k \in 1..j : s[k] \in Digits)
\* re.findall(r'\d+', s)[0]: the first maximal run of digits of s (<<>> if none)
FirstNumber(s) ==
    IF \A i \in DOMAIN s : s[i] \notin Digits THEN <<>>
    ELSE DigitPrefix(SubSeq(s, CHOOSE i \in DOMAIN s :
                                   /\ s[i] \in Digits
                                   /\ \A j \in 1..(i - 1) : s[j] \notin Digits,
                            Len(s)))

\* where '$' of a pattern without re.MULTILINE can stand, given that the
\* characters before position i were matched: at the end of the string, or
\* just before a newline that ends it
AtEnd(s, i) == i = Len(s) + 1 \/ (i = Len(s) /\ s[i] = "\n")

(***************************************************************************)
(* utils.py                                                                *)
(***************************************************************************)
NameChars == Lower \cup Upper \cup Whitespace \cup {"-", "'", "."}

\* utils.validate_passenger_name
validate_passenger_name(name) ==
    IF name = <<>> \/ Len(Strip(name)) < 2 THEN FALSE
    ELSE LET t == Strip(name)
         IN \E n \in 1..Len(t) :
               /\ \A i \in 1..n : t[i] \in NameChars
               /\ AtEnd(t, n + 1)

\* utils.validate_bus_number: ^BUS\d{3}$ on bus_number.upper()
validate_bus_number(bus_number) ==
    IF bus_number = <<>> THEN FALSE
    ELSE LET u == StrUpper(bus_number)
         IN /\ Len(u) >= 6
            /\ SubSeq(u, 1, 3) = <<"B", "U", "S">>
            /\ \A i \in 4..6 : u[i] \in Digits
            /\ AtEnd(u, 7)

\* utils.validate_seat_number: ^S\d{2}$ on seat_number.upper()
validate_seat_number(seat_number) ==
    IF seat_number = <<>> THEN FALSE
    ELSE LET u == StrUpper(seat_number)
         IN /\ Len(u) >= 3
            /\ u[1] = "S"
            /\ \A i \in 2..3 : u[i] \in Digits
            /\ AtEnd(u, 4)

\* f"S{n:02d}"
SeatId(n) == IF n < 100
             THEN <<"S", DigitSeq[(n \div 10) + 1], DigitSeq[(n % 10) + 1]>>
             ELSE <<"S", DigitSeq[(n \div 100) + 1], DigitSeq[((n \div 10) % 10) + 1],
                    DigitSeq[(n % 10) + 1]>>
\* f"BUS{n:03d}", for n < 1000
BusId(n) == <<"B", "U", "S", DigitSeq[(n \div 100) + 1],
              DigitSeq[((n \div 10) % 10) + 1], DigitSeq[(n % 10) + 1]>>

\* what a function of utils.py that raises ValueError yields
ValueError == [raised |-> "ValueError"]

\* utils.format_seat_number raises ValueError: int(numbers[0]) of a run of
\* more than IntMaxStrDigits digits
format_seat_number_raises(seat_input) ==
    Len(FirstNumber(Filter(seat_input, Lower \cup Upper \cup AsciiDigits)))
        > IntMaxStrDigits
\* utils.format_seat_number
format_seat_number(seat_input) ==
    IF seat_input = <<>> THEN <<>>
    ELSE LET clean_input == Filter(seat_input, Lower \cup Upper \cup AsciiDigits)
             numbers == FirstNumber(clean_input)
         IN IF Len(numbers) > IntMaxStrDigits THEN ValueError
            ELSE IF numbers # <<>> /\ IntBetween(numbers, 1, 40)
            THEN SeatId(IntOf(Significant(numbers)))
            ELSE StrUpper(seat_input)

\* utils.format_bus_number raises ValueError, as format_seat_number does
format_bus_number_raises(bus_input) == Len(FirstNumber(bus_input)) > IntMaxStrDigits
\* utils.format_bus_number
format_bus_number(bus_input) ==
    IF bus_input = <<>> THEN <<>>
    ELSE LET numbers == FirstNumber(bus_input)
         IN IF Len(numbers) > IntMaxStrDigits THEN ValueError
            ELSE IF numbers # <<>> /\ IntBetween(numbers, 1, 999)
            THEN BusId(IntOf(Significant(numbers)))
            ELSE StrUpper(bus_input)

\* re.sub(r'<[^>]*>', '', s): a '<' is removed together with everything up
\* to the first '>' after it; a '<' with no '>' after it stays
RECURSIVE AfterFirstGt(_)
AfterFirstGt(s) == IF Head(s) = ">" THEN Tail(s) ELSE AfterFirstGt(Tail(s))
RECURSIVE RemoveTags(_)
RemoveTags(s) ==
    IF s = <<>> THEN <<>>
    ELSE IF Head(s) = "<" /\ ">" \in Range(Tail(s))
         THEN RemoveTags(AfterFirstGt(Tail(s)))
         ELSE <<Head(s)>> \o RemoveTags(Tail(s))

\* the characters sanitize_input deletes after the tags
HarmfulChars == {"<", ">", "\"", "'"}

\* utils.sanitize_input
sanitize_input(input_str) ==
    IF input_str = <<>> THEN <<>>
    ELSE LET clean_str == RemoveTags(input_str)
         IN Strip(Filter(clean_str, Range(clean_str) \ HarmfulChars))


\* get_seat_type with every seat in one class
get_seat_type_standard(seat_number) == "standard"
\* utils.get_seat_type
get_seat_type(seat_number) ==
    IF ~validate_seat_number(seat_number) THEN "standard"
    ELSE LET seat_num == PyInt(SubSeq(seat_number, 2, Len(seat_number)))
         IN IF seat_num <= 10 THEN "premium"
            ELSE IF seat_num > 30 THEN "sleeper"
            ELSE "standard"

(***************************************************************************)
(* Inputs of the operations                                                *)
(***************************************************************************)
BUS001 == <<"B", "U", "S", "0", "0", "1">>
BUS002 == <<"B", "U", "S", "0", "0", "2">>
BUS003 == <<"B", "U", "S", "0", "0", "3">>
BUS004 == <<"B", "U", "S", "0", "0", "4">>
BUS005 == <<"B", "U", "S", "0", "0", "5">>
BUS999 == <<"B", "U", "S", "9", "9", "9">>

\* models.TicketManager._initialize_buses: bus_numbers
BusNumbers == {BUS001, BUS002, BUS003, BUS004, BUS005}
\* models.Bus.__init__: total_seats
TotalSeats == 40

\* the largest ticket id the model lets create_ticket issue
MaxTickets == 3
\* the same, where update_ticket is called with any keyword arguments
MaxUpdateTickets == 2
\* the largest ticket id the requests name, less one
MaxApiTickets == 2
\* the number of requests sent to /api/tickets and /api/tickets/<id> in all
MaxApiRequests == 3
\* the same, for the client who renames tickets
MaxRenameRequests == 3
\* the same, where the fares reported are recorded
MaxFareRequests == 3
\* the same, where the audit sink can fail
MaxLogRequests == 3
\* the number of calls of the DatabaseManager made in all
MaxDbCalls == 4
\* concurrent callers: the number of threads, and of calls they start in all
NumThreads == 3
MaxCalls == 3
\* the same, where create_ticket and cancel_ticket calls race
MaxRaceCalls == 4
\* the number of POST /api/tickets requests handled concurrently
MaxPosts == 3
\* the number of calls of a caller whose calls and their results are recorded
MaxHistory == 4
\* the largest ticket id issued where bodies carry JSON numbers
MaxJsonTickets == 2
\* the number of seats a caller who fills a bus asks for, one after the other
MaxFill == 41

\* arguments the callers of the TicketManager pass
NameArgs == {<<"A", "l">>, <<"B", "o">>}
BusArgs == {BUS001, BUS003, BUS999}
SeatArgs == {SeatId(1), SeatId(2), SeatId(41)}
IdArgs == 1..(MaxTickets + 1)
ApiIdArgs == 1..(MaxApiTickets + 1)

\* arguments the concurrent callers pass
Threads == 1..NumThreads
\* the threads of the server that handle requests at once
Servers == {1, 2}
ConcName == <<"A", "l">>
ConcBusArgs == {BUS001, BUS003, BUS999}
RaceBusArgs == {BUS001}
ConcSeatArgs == {SeatId(1)}
ConcIdArgs == {1}

(***************************************************************************)
(* State                                                                   *)
(***************************************************************************)
VARIABLES
    tickets,          \* TicketManager.tickets: ticket id -> Ticket
    booked,           \* Bus.booked_seats of each bus of TicketManager.buses
    next_ticket_id,   \* TicketManager.next_ticket_id
    clock,            \* datetime.now(), counted in Ticket constructions
    last,             \* the last completed call and what it returned
    issued,           \* the ids of the tickets create_ticket returned, in order
    pc,               \* concurrent callers: where each thread stands in its call
    loc,              \* concurrent callers: the local variables of each thread
    calls,            \* concurrent callers: the number of calls started
    results,          \* concurrent callers: call number -> what the call returned
    objs,             \* concurrent callers: the Ticket objects they share
    stored,           \* concurrent callers: ticket id -> the object stored under it
    req,              \* HTTP: the request answered last
    resp,             \* HTTP: the response to it
    db,               \* DatabaseManager: the SQLite database at db_path
    alerts            \* AlertSystem.alerts: the deque of the alerts retained

mgrVars == <<tickets, booked, next_ticket_id, clock>>
seqVars == <<last, issued>>
thrVars == <<pc, loc, calls, results, objs, stored>>
apiVars == <<req, resp>>
dbVars == <<db>>
monVars == <<alerts>>
vars == <<tickets, booked, next_ticket_id, clock, last, issued,
          pc, loc, calls, results, objs, stored, req, resp, db, alerts>>

\* the value of Python's None
None == [none |-> TRUE]

\* the TicketManager as one value
Mgr == [tickets |-> tickets, booked |-> booked,
        next_ticket_id |-> next_ticket_id, clock |-> clock]

(***************************************************************************)
(* models.py                                                               *)
(***************************************************************************)

\* A datetime is the tick of the clock it was taken at, marked as a datetime
\* so that it can be told from a str, which is the sequence of its characters
Datetime(tick) == <<"datetime", tick>>
\* the value has the method isoformat
IsDatetime(value) == Len(value) = 2 /\ value[1] = "datetime"
\* datetime.isoformat: the text of the tick
isoformat(value) == value[2]

\* a constructor that drops the passenger's name
Ticket_anonymous(ticket_id, name, bus, seat, now) ==
    [id |-> ticket_id, name |-> <<>>, bus |-> bus, seat |-> seat,
     booking_time |-> Datetime(now), status |-> "confirmed"]
\* models.Ticket.__init__; now is the tick datetime.now() is taken at
Ticket(ticket_id, name, bus, seat, now) ==
    [id |-> ticket_id, name |-> name, bus |-> bus, seat |-> seat,
     booking_time |-> Datetime(now), status |-> "confirmed"]

\* A Ticket is the function from the names of its instance attributes to
\* their values (its __dict__).  The attributes Ticket.__init__ sets:
TicketAttrs == {"id", "name", "bus", "seat", "booking_time", "status"}

\* the attributes hasattr finds on every Ticket besides those: the methods of
\* Ticket and the attributes of object
TicketClassAttrs ==
    {"to_dict", "update", "cancel", "__init__", "__repr__",
     "__class__", "__delattr__", "__dict__", "__dir__", "__doc__", "__eq__",
     "__format__", "__ge__", "__getattribute__", "__getstate__", "__gt__",
     "__hash__", "__init_subclass__", "__le__", "__lt__", "__module__",
     "__ne__", "__new__", "__reduce__", "__reduce_ex__", "__setattr__",
     "__sizeof__", "__str__", "__subclasshook__", "__weakref__"}

\* hasattr(ticket, key)
HasAttr(t, key) == key \in DOMAIN t \cup TicketClassAttrs

\* the exception setattr(ticket, key, value) raises ("" if none) for a value
\* that is neither a class nor a dict
SetattrRaises(key) ==
    IF key \in {"__class__", "__dict__"} THEN "TypeError"
    ELSE IF key = "__weakref__" THEN "AttributeError"
    ELSE ""

\* ticket.method is an instance attribute that Ticket.update has set, which
\* hides the method of the class: ticket.method() raises TypeError
Shadowed(t, method) == method \in DOMAIN t

\* dict item assignment d[k] = v
DictSet(d, k, v) == [x \in DOMAIN d \cup {k} |-> IF x = k THEN v ELSE d[x]]

\* the keys of keyword arguments, a sequence of <<key, value>>
Keys(kwargs) == {kwargs[i][1] : i \in DOMAIN kwargs}

\* models.py 31-34: the loop of Ticket.update over kwargs, the sequence of the
\* keyword arguments, <<key, value>> each, in the order they are passed; t is
\* the ticket after the loop and raised the exception that ended it ("" if
\* none)
RECURSIVE TicketUpdateItems(_, _)
TicketUpdateItems(t, kwargs) ==
    IF kwargs = <<>> THEN [t |-> t, raised |-> ""]
    ELSE LET key == Head(kwargs)[1]
             value == Head(kwargs)[2]
         IN IF ~(HasAttr(t, key) /\ key # "id") THEN TicketUpdateItems(t, Tail(kwargs))
            ELSE IF SetattrRaises(key) # ""
            THEN [t |-> t, raised |-> SetattrRaises(key)]
            ELSE TicketUpdateItems(DictSet(t, key, value), Tail(kwargs))

\* models.Ticket.update(self, **kwargs): a keyword argument named self is a
\* second value for the parameter, and the call raises TypeError before the
\* loop runs
TicketUpdate(t, kwargs) ==
    IF "self" \in Keys(kwargs) THEN [t |-> t, raised |-> "TypeError"]
    ELSE TicketUpdateItems(t, kwargs)

\* models.Ticket.cancel
TicketCancel(t) == [t EXCEPT !.status = "cancelled"]

\* the exception ticket.to_dict() raises ("" if none): TypeError when an
\* instance attribute hides the method, AttributeError at
\* self.booking_time.isoformat() when booking_time is not a datetime
to_dict_raises(t) ==
    IF Shadowed(t, "to_dict") THEN "TypeError"
    ELSE IF ~IsDatetime(t.booking_time) THEN "AttributeError"
    ELSE ""
\* models.Ticket.to_dict
to_dict(t) ==
    IF to_dict_raises(t) # "" THEN [raised |-> to_dict_raises(t)]
    ELSE [id |-> t.id, name |-> t.name, bus |-> t.bus, seat |-> t.seat,
          booking_time |-> isoformat(t.booking_time), status |-> t.status]

\* a call of the manager that raises: the manager it leaves and the exception
Raised(m, exception) == [m |-> m, raised |-> exception]
IsRaised(r) == "raised" \in DOMAIN r

\* models.Bus.is_seat_available, on the booked set of the bus
is_seat_available(booked_seats, seat_number) == seat_number \notin booked_seats


\* a book_seat that books the seat and reports that it did not
book_seat_denied(booked_seats, seat_number) ==
    [booked_seats |-> booked_seats \cup {seat_number}, ret |-> FALSE]
\* models.Bus.book_seat: the booked set after the call and the value returned
book_seat(booked_seats, seat_number) ==
    IF is_seat_available(booked_seats, seat_number)
    THEN [booked_seats |-> booked_seats \cup {seat_number}, ret |-> TRUE]
    ELSE [booked_seats |-> booked_seats, ret |-> FALSE]


\* a release that empties the bus
release_seat_all(booked_seats, seat_number) == {}
\* a release that leaves the seat booked
release_seat_kept(booked_seats, seat_number) == booked_seats
\* models.Bus.release_seat: set.discard
release_seat(booked_seats, seat_number) == booked_seats \ {seat_number}

\* models.py 69: all_seats
all_seats == [i \in 1..TotalSeats |-> SeatId(i)]

\* a listing that leaves the booked seats in
get_available_seats_all(booked_seats) == all_seats
\* models.Bus.get_available_seats, as the list it returns
get_available_seats_of(booked_seats) ==
    SelectSeq(all_seats, LAMBDA seat : seat \notin booked_seats)

\* models.TicketManager.get_ticket: dict.get
get_ticket(m, ticket_id) ==
    IF ticket_id \in DOMAIN m.tickets THEN m.tickets[ticket_id] ELSE None

\* a del that leaves the entry in place
DictKept(d, k) == d
\* del d[k], for k in d
DictDel(d, k) == [x \in DOMAIN d \ {k} |-> d[x]]


\* an increment that skips an id
IncrementIdSkip(n) == n + 2
\* an increment that is lost
IncrementIdLost(n) == n
\* models.py 111: self.next_ticket_id += 1
IncrementId(n) == n + 1

\* models.TicketManager.create_ticket, run without interruption:
\* the manager after the call and the value returned
create_ticket(m, name, bus, seat) ==
    IF bus \notin DOMAIN m.booked THEN [m |-> m, ret |-> None]
    ELSE LET b == book_seat(m.booked[bus], seat)
         IN IF ~b.ret THEN [m |-> m, ret |-> None]
            ELSE LET ticket == Ticket(m.next_ticket_id, name, bus, seat, m.clock)
                 IN [m |-> [tickets |-> DictSet(m.tickets, m.next_ticket_id, ticket),
                            booked |-> [m.booked EXCEPT ![bus] = b.booked_seats],
                            next_ticket_id |-> IncrementId(m.next_ticket_id),
                            clock |-> m.clock + 1],
                     ret |-> ticket]

\* models.TicketManager.update_ticket(self, ticket_id, **kwargs): a keyword
\* argument named self or ticket_id is a second value for the parameter, and
\* the call raises TypeError before anything is done
update_ticket(m, ticket_id, kwargs) ==
    LET ticket == get_ticket(m, ticket_id)
    IN IF Keys(kwargs) \cap {"self", "ticket_id"} # {} THEN Raised(m, "TypeError")
       ELSE IF ticket # None
       THEN IF Shadowed(ticket, "update") THEN Raised(m, "TypeError")
            ELSE LET updated == TicketUpdate(ticket, kwargs)
                     after == [m EXCEPT !.tickets[ticket_id] = updated.t]
                 IN IF updated.raised # "" THEN Raised(after, updated.raised)
                    ELSE [m |-> after, ret |-> updated.t]
       ELSE [m |-> m, ret |-> None]

\* a cancel that reports success for any id
cancel_ticket_any(m, ticket_id) ==
    [m |-> [m EXCEPT !.tickets = [x \in DOMAIN m.tickets \ {ticket_id} |-> m.tickets[x]]],
     ret |-> TRUE]
\* models.TicketManager.cancel_ticket, run without interruption
cancel_ticket(m, ticket_id) ==
    LET ticket == get_ticket(m, ticket_id)
    IN IF ticket # None
       THEN LET released ==
                    IF ticket.bus \in DOMAIN m.booked
                    THEN [m.booked EXCEPT
                            ![ticket.bus] = release_seat(@, ticket.seat)]
                    ELSE m.booked
                cancelled == [m.tickets EXCEPT ![ticket_id] = TicketCancel(ticket)]
            IN IF Shadowed(ticket, "cancel")
               THEN Raised([m EXCEPT !.booked = released], "TypeError")
               ELSE [m |-> [m EXCEPT !.booked = released,
                                     !.tickets = DictDel(cancelled, ticket_id)],
                     ret |-> TRUE]
       ELSE [m |-> m, ret |-> FALSE]


\* get_available_seats that takes an unknown bus for an empty one
get_available_seats_empty_bus(m, bus_number) ==
    IF bus_number \in DOMAIN m.booked
    THEN get_available_seats_of(m.booked[bus_number]) ELSE all_seats
\* models.TicketManager.get_available_seats
get_available_seats(m, bus_number) ==
    IF bus_number \in DOMAIN m.booked
    THEN get_available_seats_of(m.booked[bus_number]) ELSE <<>>

(***************************************************************************)
(* The TicketManager used by one caller at a time                          *)
(***************************************************************************)
\* models.TicketManager.__init__
Init ==
    /\ tickets = <<>>
    /\ booked = [b \in BusNumbers |-> {}]
    /\ next_ticket_id = 1
    /\ clock = 0
    /\ last = [op |-> "init"]
    /\ issued = <<>>
    /\ pc = [t \in Threads |-> "idle"]
    /\ loc = [t \in Threads |-> [op |-> "none"]]
    /\ calls = 0
    /\ results = <<>>
    /\ req = [method |-> "none"]
    /\ resp = [status |-> 0]
    /\ objs = <<>>
    /\ stored = <<>>
    /\ db = [tickets |-> <<>>, seq |-> 0, audit_log |-> 0]
    /\ alerts = <<>>

SetMgr(m) ==
    /\ tickets' = m.tickets
    /\ booked' = m.booked
    /\ next_ticket_id' = m.next_ticket_id
    /\ clock' = m.clock

CreateTicketUpTo(max_id) ==
    \E name \in NameArgs, bus \in BusArgs, seat \in SeatArgs :
        /\ next_ticket_id <= max_id
        /\ LET r == create_ticket(Mgr, name, bus, seat)
           IN /\ SetMgr(r.m)
              /\ last' = [op |-> "create_ticket", bus |-> bus, seat |-> seat,
                          ret |-> r.ret]
              /\ issued' = IF r.ret # None THEN Append(issued, r.ret.id) ELSE issued
              /\ UNCHANGED <<thrVars, apiVars, dbVars, monVars>>

CreateTicket == CreateTicketUpTo(MaxTickets)

CancelTicket ==
    \E ticket_id \in IdArgs :
        LET r == cancel_ticket(Mgr, ticket_id)
        IN /\ SetMgr(r.m)
           /\ last' = IF IsRaised(r)
                      THEN [op |-> "cancel_ticket", id |-> ticket_id, raised |-> r.raised]
                      ELSE [op |-> "cancel_ticket", id |-> ticket_id, ret |-> r.ret]
           /\ UNCHANGED <<issued, thrVars, apiVars, dbVars, monVars>>

\* update_ticket(ticket_id, name=name)
UpdateTicketName ==
    \E ticket_id \in IdArgs, name \in NameArgs :
        LET r == update_ticket(Mgr, ticket_id, <<<<"name", name>>>>)
        IN /\ SetMgr(r.m)
           /\ last' = [op |-> "update_ticket", id |-> ticket_id, ret |-> r.ret]
           /\ UNCHANGED <<issued, thrVars, apiVars, dbVars, monVars>>

Next == CreateTicket \/ CancelTicket \/ UpdateTicketName

Spec == Init /\ [][Next]_vars

\* update_ticket(ticket_id, **kwargs) with any keyword arguments: the value
\* passed for each key
KwargValue(key) ==
    CASE key = "bus" -> BUS003
      [] key = "seat" -> SeatId(2)
      [] key = "status" -> "cancelled"
      [] key \in {"id", "fare", "ticket_id"} -> 7
      [] OTHER -> <<"B", "o">>
Kwarg(key) == <<key, KwargValue(key)>>

\* the keyword arguments passed: one attribute of the ticket, a method of
\* Ticket, an attribute of object that cannot be set, a name that is no
\* attribute, the name of a parameter of update_ticket, and several at once
KwargArgs ==
    {<<Kwarg(key)>> : key \in {"name", "seat", "cancel", "__class__", "fare",
                                "ticket_id"}}
    \cup {<<Kwarg("id"), Kwarg("name"), Kwarg("bus"), Kwarg("seat"),
            Kwarg("booking_time"), Kwarg("status")>>,
          <<Kwarg("name"), Kwarg("__class__"), Kwarg("seat")>>}

UpdateTicket ==
    \E ticket_id \in IdArgs, kwargs \in KwargArgs :
        LET r == update_ticket(Mgr, ticket_id, kwargs)
        IN /\ SetMgr(r.m)
           /\ last' = IF IsRaised(r)
                      THEN [op |-> "update_ticket", id |-> ticket_id, raised |-> r.raised]
                      ELSE [op |-> "update_ticket", id |-> ticket_id, ret |-> r.ret]
           /\ UNCHANGED <<issued, thrVars, apiVars, dbVars, monVars>>

CreateTicketToUpdate == CreateTicketUpTo(MaxUpdateTickets)

NextUpdate == CreateTicketToUpdate \/ CancelTicket \/ UpdateTicket

\* the TicketManager used by one caller at a time, update_ticket with any fields
SpecUpdate == Init /\ [][NextUpdate]_vars

\* the tickets of the store that hold seat s of bus b
Holders(b, s) == {i \in DOMAIN tickets : tickets[i].bus = b /\ tickets[i].seat = s}

\* C4: after any sequence of completed create_ticket, cancel_ticket and
\* name-only update_ticket calls, every ticket of the store is confirmed and
\* its seat is booked on its bus, and every booked seat of every bus is held
\* by exactly one ticket of the store.
C4_StoreAndLedgerAgree ==
    /\ \A i \in DOMAIN tickets :
          /\ tickets[i].status = "confirmed"
          /\ tickets[i].bus \in DOMAIN booked
          /\ tickets[i].seat \in booked[tickets[i].bus]
    /\ \A b \in DOMAIN booked : \A s \in booked[b] : Cardinality(Holders(b, s)) = 1

\* two tickets are held after a cancellation and a name update
C4_Witness ==
    /\ Cardinality(DOMAIN tickets) = 2
    /\ Len(issued) = 3
    /\ last.op = "update_ticket"
    /\ last.ret # None

\* C5: the ids of the tickets created start at 1 and increase strictly in
\* creation order, so that no id is issued twice, also after the ticket that
\* carried it was cancelled.
C5_IdsStrictlyIncreasing ==
    /\ Len(issued) > 0 => issued[1] = 1
    /\ \A i, j \in DOMAIN issued : i < j => issued[i] < issued[j]

\* a ticket was created after the cancellation of an earlier one
C5_Witness ==
    /\ last.op = "create_ticket"
    /\ last.ret # None
    /\ Len(issued) >= 2
    /\ issued[1] \notin DOMAIN tickets

\* C6: update_ticket changes only the passenger name, whatever keyword
\* arguments it is given: id, bus, seat, status and booking time of the ticket
\* and the booked set of every bus are as before the call.
C6_UpdateChangesOnlyName ==
    [][last'.op = "update_ticket" =>
         /\ DOMAIN tickets' = DOMAIN tickets
         /\ \A i \in DOMAIN tickets :
               /\ tickets'[i].id = tickets[i].id
               /\ tickets'[i].bus = tickets[i].bus
               /\ tickets'[i].seat = tickets[i].seat
               /\ tickets'[i].status = tickets[i].status
               /\ tickets'[i].booking_time = tickets[i].booking_time
         /\ booked' = booked]_vars

(***************************************************************************)
(* routes.py: the HTTP handlers.  A JSON body is a function from field     *)
(* names to strings; fares are in tenths of a currency unit, so that 97.5  *)
(* is 975.                                                                 *)
(***************************************************************************)

\* calculate_fare without the seat class multiplier
calculate_fare_flat(bus_number, seat_type) ==
    IF bus_number \in {BUS001, BUS002} THEN 750 ELSE 500
\* utils.calculate_fare, in tenths
calculate_fare(bus_number, seat_type) ==
    LET base_fare == IF bus_number \in {BUS001, BUS002} THEN (500 * 15) \div 10 ELSE 500
        seat_multiplier == CASE seat_type = "standard" -> 10
                             [] seat_type = "premium" -> 13
                             [] seat_type = "sleeper" -> 15
                             [] OTHER -> 10
    IN (base_fare * seat_multiplier) \div 10

\* utils.validate_ticket_data raises ValueError: format_bus_number or
\* format_seat_number, called on a field that is present, does
validate_ticket_data_raises(data) ==
    \/ "bus" \in DOMAIN data /\ format_bus_number_raises(data["bus"])
    \/ "seat" \in DOMAIN data /\ format_seat_number_raises(data["seat"])
\* utils.validate_ticket_data: the list of errors
validate_ticket_data(data) ==
    IF validate_ticket_data_raises(data) THEN ValueError ELSE
    LET required(field) ==
            IF field \notin DOMAIN data \/ data[field] = <<>>
            THEN <<"Field '" \o field \o "' is required">> ELSE <<>>
        present(field) == field \in DOMAIN data /\ data[field] # <<>>
    IN required("name") \o required("bus") \o required("seat")
       \o (IF present("name") /\ ~validate_passenger_name(data["name"])
           THEN <<"Invalid passenger name format">> ELSE <<>>)
       \o (IF present("bus") /\ ~validate_bus_number(format_bus_number(data["bus"]))
           THEN <<"Invalid bus number format">> ELSE <<>>)
       \o (IF present("seat") /\ ~validate_seat_number(format_seat_number(data["seat"]))
           THEN <<"Invalid seat number format">> ELSE <<>>)

\* utils.format_response, without the message and the timestamp
format_response(status, success, data, error_code) ==
    [status |-> status, success |-> success, data |-> data, error_code |-> error_code]

\* dict.get(key, '')
Get(data, key) == IF key \in DOMAIN data THEN data[key] ELSE <<>>

\* the ticket as GET /api/tickets/<id> and POST /api/tickets report it
ticket_data(ticket) ==
    IF to_dict_raises(ticket) # "" THEN [raised |-> to_dict_raises(ticket)]
    ELSE [ticket |-> to_dict(ticket),
          seat_type |-> get_seat_type(ticket.seat),
          fare |-> calculate_fare(ticket.bus, get_seat_type(ticket.seat))]

\* routes.create_ticket (POST /api/tickets): the manager after the request
\* and the response; the ValueError of format_bus_number and
\* format_seat_number is caught at routes.py 124-125
route_create_ticket(m, data) ==
    IF DOMAIN data = {}
    THEN [m |-> m, resp |-> format_response(400, FALSE, None, "NO_DATA")]
    ELSE IF \/ format_bus_number_raises(Get(data, "bus"))
            \/ format_seat_number_raises(Get(data, "seat"))
    THEN [m |-> m, resp |-> format_response(500, FALSE, None, "CREATE_TICKET_ERROR")]
    ELSE
    LET sanitized_data == [name |-> sanitize_input(Get(data, "name")),
                           bus |-> format_bus_number(Get(data, "bus")),
                           seat |-> format_seat_number(Get(data, "seat"))]
        errors == validate_ticket_data(sanitized_data)
        available_seats == get_available_seats(m, sanitized_data.bus)
        created == create_ticket(m, sanitized_data.name, sanitized_data.bus,
                                 sanitized_data.seat)
    IN IF errors # <<>>
       THEN [m |-> m,
             resp |-> format_response(400, FALSE, [errors |-> errors],
                                      "VALIDATION_ERROR")]
       ELSE IF sanitized_data.seat \notin Range(available_seats)
       THEN [m |-> m,
             resp |-> format_response(409, FALSE,
                                      [available_seats |-> available_seats],
                                      "SEAT_NOT_AVAILABLE")]
       ELSE IF created.ret = None
       THEN [m |-> created.m,
             resp |-> format_response(500, FALSE, None, "CREATION_FAILED")]
       ELSE [m |-> created.m,
             resp |-> format_response(201, TRUE, ticket_data(created.ret), "")]

\* routes.get_ticket (GET /api/tickets/<id>)
route_get_ticket(m, ticket_id) ==
    LET ticket == get_ticket(m, ticket_id)
    IN IF ticket = None
       THEN [m |-> m, resp |-> format_response(404, FALSE, None, "TICKET_NOT_FOUND")]
       ELSE IF to_dict_raises(ticket) # ""
       THEN [m |-> m, resp |-> format_response(500, FALSE, None, "GET_TICKET_ERROR")]
       ELSE [m |-> m, resp |-> format_response(200, TRUE, ticket_data(ticket), "")]

\* the items of a dict, in the order of their insertion; the order of a dict
\* of at most one key, as allowed_fields leaves it, is the only one there is
RECURSIVE Items(_)
Items(d) ==
    IF DOMAIN d = {} THEN <<>>
    ELSE LET k == CHOOSE x \in DOMAIN d : TRUE
         IN <<<<k, d[k]>>>> \o Items([x \in DOMAIN d \ {k} |-> d[x]])


\* routes.cancel_ticket (DELETE /api/tickets/<id>)
route_cancel_ticket(m, ticket_id) ==
    LET cancelled == cancel_ticket(m, ticket_id)
    IN IF IsRaised(cancelled)
       THEN [m |-> cancelled.m,
             resp |-> format_response(500, FALSE, None, "CANCEL_TICKET_ERROR")]
       ELSE IF ~cancelled.ret
       THEN [m |-> cancelled.m,
             resp |-> format_response(404, FALSE, None, "TICKET_NOT_FOUND")]
       ELSE [m |-> cancelled.m, resp |-> format_response(200, TRUE, None, "")]

\* the fields of the bodies sent
PostNames == {<<"A", "l">>, <<" ", "B", "o">>, <<"A", "1">>}
PostBuses == {<<"b", "u", "s", "1">>, BUS999, <<"x">>}
PostSeats == {SeatId(1), <<"2">>, SeatId(41), SeatId(0)}
PutNames == {<<"A", "l">>, <<" ", "B", "o">>, <<"A", "1">>, <<"A">>, <<>>, <<"O", "'", "N">>}
\* what a PUT body carries besides the name
PutOthers == [bus |-> BUS003, seat |-> SeatId(2), status |-> <<"x">>,
              booking_time |-> <<"0">>, id |-> <<"9">>]

\* a body and the same body without one of its fields
Without(body, field) == [f \in DOMAIN body \ {field} |-> body[f]]
\* the POST bodies sent: a valid body, the bodies that differ from it in one
\* field, the bodies that lack one field and the empty body
PostBody == [name |-> <<"A", "l">>, bus |-> <<"b", "u", "s", "1">>, seat |-> SeatId(1)]
PostBodies ==
    {[PostBody EXCEPT !.name = name] : name \in PostNames}
    \cup {[PostBody EXCEPT !.bus = bus] : bus \in PostBuses}
    \cup {[PostBody EXCEPT !.seat = seat] : seat \in PostSeats}
    \cup {Without(PostBody, field) : field \in DOMAIN PostBody}
    \cup {Without(Without(PostBody, "bus"), "seat"), [f \in {} |-> <<>>]}
\* the PUT bodies sent: each name alone, a name with the other fields, the
\* other fields alone and the empty body
PutBody == [f \in {"name"} \cup DOMAIN PutOthers |->
               IF f = "name" THEN <<" ", "B", "o">> ELSE PutOthers[f]]
PutBodies ==
    {[name |-> name] : name \in PutNames}
    \cup {PutBody, PutOthers, [f \in {} |-> <<>>]}

\* a handler that runs without interruption: r is the manager it leaves and
\* its response
Handle(request, r) ==
    /\ SetMgr(r.m)
    /\ req' = request
    /\ resp' = r.resp
    /\ UNCHANGED <<seqVars, thrVars, dbVars, monVars>>

GetTicket ==
    \E ticket_id \in ApiIdArgs :
        Handle([method |-> "GET", id |-> ticket_id], route_get_ticket(Mgr, ticket_id))

DeleteTicket ==
    \E ticket_id \in ApiIdArgs :
        Handle([method |-> "DELETE", id |-> ticket_id],
               route_cancel_ticket(Mgr, ticket_id))

(***************************************************************************)
(* The TicketManager and the handlers of routes.py run by several threads  *)
(* at once (app.py 62: app.run serves each request in a thread of its      *)
(* own).  The code takes no lock, so a thread can be preempted between any *)
(* two accesses to what the threads share: the dict of the tickets, the    *)
(* booked sets, next_ticket_id, the clock, and the attributes of a Ticket  *)
(* that a thread can set, which are name and status.  Each action below is *)
(* one such access, with the computation of the thread on its own local    *)
(* variables that follows it.                                              *)
(*                                                                         *)
(* The threads share the Ticket objects.  objs maps every object that the  *)
(* dict or a local variable of a thread refers to to its attributes,       *)
(* stored maps the keys of self.tickets to the objects, and tickets is     *)
(* self.tickets with every object shown by its attributes.  loc[t] holds   *)
(* the local variables of thread t; its variable ticket is a reference.    *)
(***************************************************************************)
\* a reference to the object r of objs
Ref(r) == [ref |-> r]

\* where a new object is put
NewRef == CHOOSE r \in 1..(Cardinality(DOMAIN objs) + 1) : r \notin DOMAIN objs

\* the objects the local variables refer to
Referred(frames) ==
    {frames[t].ticket.ref : t \in {u \in DOMAIN frames : "ticket" \in DOMAIN frames[u]}}

\* the local variables of frame that are named in names
Locals(frame, names) == [a \in DOMAIN frame \cap names |-> frame[a]]

\* thread t goes on at label with the local variables frame, and leaves the
\* objects heap and the dict store; an object that nothing refers to any
\* more is freed
Step(t, label, frame, heap, store) ==
    LET frames == [loc EXCEPT ![t] = frame]
    IN /\ pc' = [pc EXCEPT ![t] = label]
       /\ loc' = frames
       /\ objs' = [r \in Range(store) \cup Referred(frames) |-> heap[r]]
       /\ stored' = store
       /\ tickets' = [k \in DOMAIN store |-> heap[store[k]]]

\* the same, where the thread stays in its call
Goto(t, label, frame, heap, store) ==
    /\ Step(t, label, frame, heap, store)
    /\ UNCHANGED <<req, resp, results>>

\* the call of thread t to the manager ends: it returns value, or raises
\* when raised # ""
End(t, value, raised, heap, store) ==
    /\ Step(t, "idle", [op |-> "none"], heap, store)
    /\ results' = DictSet(results, loc[t].call,
                          [op |-> loc[t].op, args |-> loc[t].args,
                           ret |-> value, raised |-> raised])
    /\ UNCHANGED <<req, resp>>

\* the handler that thread t runs with the local variables frame returns
\* response; the responses of the handlers marked kept are recorded
Answer(t, frame, response, heap, store) ==
    /\ Step(t, "idle", [op |-> "none"], heap, store)
    /\ req' = frame.request
    /\ resp' = response
    /\ results' = IF frame.kept
                  THEN DictSet(results, frame.call,
                               [op |-> frame.op, args |-> frame.args,
                                ret |-> response, raised |-> ""])
                  ELSE results

\* a call or a request is taken by a thread of its own; the threads are
\* numbered, and it is the first idle one of threads that takes it
Free(t, threads) ==
    /\ t \in threads
    /\ pc[t] = "idle"
    /\ \A u \in threads : u < t => pc[u] # "idle"

\* the local variables of a handler that it reads after a call to the manager
HandlerLocals == {"op", "call", "request", "args", "sinks", "kept", "ticket"}

\* the error code of the except clause of the handler
ErrorCode(op) ==
    CASE op = "POST" -> "CREATE_TICKET_ERROR"
      [] op = "GET" -> "GET_TICKET_ERROR"
      [] op = "PUT" -> "UPDATE_TICKET_ERROR"
      [] op = "DELETE" -> "CANCEL_TICKET_ERROR"

\* a thread calls create_ticket(name, bus, seat)
CallCreate(t, threads, buses, max_calls) ==
    /\ Free(t, threads)
    /\ calls < max_calls
    /\ \E bus \in buses, seat \in ConcSeatArgs :
          Goto(t, "create_check",
               [op |-> "create_ticket", call |-> calls + 1,
                args |-> [name |-> ConcName, bus |-> bus, seat |-> seat]],
               objs, stored)
    /\ calls' = calls + 1
    /\ UNCHANGED <<booked, next_ticket_id, clock, seqVars, dbVars, monVars>>

\* create_ticket returns ticket, None or a reference, to its caller: the
\* thread itself or routes.create_ticket, routes.py 99-106
CreateReturn(t, ticket) ==
    IF loc[t].op = "POST"
    THEN IF ticket = None
         THEN Answer(t, loc[t], format_response(500, FALSE, None, "CREATION_FAILED"),
                     objs, stored)
         ELSE Goto(t, "to_dict",
                   Locals(loc[t], HandlerLocals),
                   objs, stored)
    ELSE End(t, IF ticket = None THEN None ELSE objs[ticket.ref], "", objs, stored)

\* models.py 103-104, and 106, 58, 54: is_seat_available, called by book_seat
CreateCheck(t) ==
    /\ pc[t] = "create_check"
    /\ IF loc[t].args.bus \notin DOMAIN booked
       THEN CreateReturn(t, None)
       ELSE Goto(t, "create_book",
                 DictSet(loc[t], "available",
                         is_seat_available(booked[loc[t].args.bus], loc[t].args.seat)),
                 objs, stored)
    /\ UNCHANGED <<booked, next_ticket_id, clock, seqVars, dbVars, monVars, calls>>

\* models.py 58-61 and 106-107: the rest of book_seat
CreateBook(t) ==
    /\ pc[t] = "create_book"
    /\ IF loc[t].available
       THEN /\ booked' = [booked EXCEPT ![loc[t].args.bus] = @ \cup {loc[t].args.seat}]
            /\ Goto(t, "create_id", Locals(loc[t], DOMAIN loc[t] \ {"available"}),
                    objs, stored)
       ELSE /\ CreateReturn(t, None)
            /\ UNCHANGED booked
    /\ UNCHANGED <<next_ticket_id, clock, seqVars, dbVars, monVars, calls>>

\* models.py 109: self.next_ticket_id, the first argument of Ticket(...)
CreateId(t) ==
    /\ pc[t] = "create_id"
    /\ Goto(t, "create_new", DictSet(loc[t], "ticket_id", next_ticket_id), objs, stored)
    /\ UNCHANGED <<booked, next_ticket_id, clock, seqVars, dbVars, monVars, calls>>

\* models.py 109 and 12-17: Ticket.__init__, which reads the clock
CreateNew(t) ==
    /\ pc[t] = "create_new"
    /\ Goto(t, "create_key",
            DictSet(Locals(loc[t], DOMAIN loc[t] \ {"ticket_id"}), "ticket", Ref(NewRef)),
            DictSet(objs, NewRef,
                    Ticket(loc[t].ticket_id, loc[t].args.name, loc[t].args.bus,
                           loc[t].args.seat, clock)),
            stored)
    /\ clock' = clock + 1
    /\ UNCHANGED <<booked, next_ticket_id, seqVars, dbVars, monVars, calls>>

\* models.py 110: self.next_ticket_id, the key of the assignment
CreateKey(t) ==
    /\ pc[t] = "create_key"
    /\ Goto(t, "create_store", DictSet(loc[t], "key", next_ticket_id), objs, stored)
    /\ UNCHANGED <<booked, next_ticket_id, clock, seqVars, dbVars, monVars, calls>>

\* models.py 110: self.tickets[key] = ticket
CreateStore(t) ==
    /\ pc[t] = "create_store"
    /\ Goto(t, "create_load_id", Locals(loc[t], DOMAIN loc[t] \ {"key"}),
            objs, DictSet(stored, loc[t].key, loc[t].ticket.ref))
    /\ UNCHANGED <<booked, next_ticket_id, clock, seqVars, dbVars, monVars, calls>>

\* models.py 111: self.next_ticket_id += 1, the load
CreateLoadId(t) ==
    /\ pc[t] = "create_load_id"
    /\ Goto(t, "create_store_id", DictSet(loc[t], "loaded", next_ticket_id), objs, stored)
    /\ UNCHANGED <<booked, next_ticket_id, clock, seqVars, dbVars, monVars, calls>>

\* models.py 111-112: self.next_ticket_id += 1, the store; return ticket
CreateStoreId(t) ==
    /\ pc[t] = "create_store_id"
    /\ next_ticket_id' = IncrementId(loc[t].loaded)
    /\ CreateReturn(t, loc[t].ticket)
    /\ UNCHANGED <<booked, clock, seqVars, dbVars, monVars, calls>>

\* a thread calls cancel_ticket(ticket_id)
CallCancel(t, threads, max_calls) ==
    /\ Free(t, threads)
    /\ calls < max_calls
    /\ \E ticket_id \in ConcIdArgs :
          Goto(t, "cancel_get",
               [op |-> "cancel_ticket", call |-> calls + 1, args |-> [id |-> ticket_id]],
               objs, stored)
    /\ calls' = calls + 1
    /\ UNCHANGED <<booked, next_ticket_id, clock, seqVars, dbVars, monVars>>

\* cancel_ticket returns value, or raises when raised # "", to its caller:
\* the thread itself or routes.cancel_ticket, routes.py 190-199, whose
\* log_activity call is on the successful path
CancelReturn(t, value, raised, heap, store) ==
    IF loc[t].op = "DELETE"
    THEN \E sink_fails \in (IF raised = "" /\ value = TRUE THEN loc[t].sinks ELSE {FALSE}) :
            Answer(t, loc[t],
                   IF raised # "" \/ sink_fails
                   THEN format_response(500, FALSE, None, ErrorCode("DELETE"))
                   ELSE IF ~value
                   THEN format_response(404, FALSE, None, "TICKET_NOT_FOUND")
                   ELSE format_response(200, TRUE, None, ""),
                   heap, store)
    ELSE End(t, value, raised, heap, store)

\* models.py 131-132 and 139: ticket = self.get_ticket(ticket_id)
CancelGet(t) ==
    /\ pc[t] = "cancel_get"
    /\ IF loc[t].args.id \in DOMAIN stored
       THEN Goto(t, "cancel_release",
                 DictSet(loc[t], "ticket", Ref(stored[loc[t].args.id])), objs, stored)
       ELSE CancelReturn(t, FALSE, "", objs, stored)
    /\ UNCHANGED <<booked, next_ticket_id, clock, seqVars, dbVars, monVars, calls>>

\* models.py 133-135: bus.release_seat(ticket.seat); no thread sets the bus
\* or the seat of a Ticket
CancelRelease(t) ==
    /\ pc[t] = "cancel_release"
    /\ LET ticket == objs[loc[t].ticket.ref]
       IN booked' = IF ticket.bus \in DOMAIN booked
                    THEN [booked EXCEPT ![ticket.bus] = release_seat(@, ticket.seat)]
                    ELSE booked
    /\ Goto(t, "cancel_mark", loc[t], objs, stored)
    /\ UNCHANGED <<next_ticket_id, clock, seqVars, dbVars, monVars, calls>>

\* models.py 136: ticket.cancel() sets the status of the object, which the
\* other threads that hold it and the dict, if it is still stored, see; an
\* attribute named cancel that update has set is not callable
CancelMark(t) ==
    /\ pc[t] = "cancel_mark"
    /\ IF Shadowed(objs[loc[t].ticket.ref], "cancel")
       THEN CancelReturn(t, None, "TypeError", objs, stored)
       ELSE Goto(t, "cancel_delete", loc[t],
                 [objs EXCEPT ![loc[t].ticket.ref] = TicketCancel(@)], stored)
    /\ UNCHANGED <<booked, next_ticket_id, clock, seqVars, dbVars, monVars, calls>>

\* models.py 137-138: del self.tickets[ticket_id]; return True.  The entry
\* deleted is whatever is stored under ticket_id now, and del raises KeyError
\* when there is none.
CancelDelete(t) ==
    /\ pc[t] = "cancel_delete"
    /\ IF loc[t].args.id \in DOMAIN stored
       THEN CancelReturn(t, TRUE, "", objs, DictDel(stored, loc[t].args.id))
       ELSE CancelReturn(t, None, "KeyError", objs, stored)
    /\ UNCHANGED <<booked, next_ticket_id, clock, seqVars, dbVars, monVars, calls>>

\* the steps of create_ticket and of cancel_ticket
CreateSteps(t) ==
    \/ CreateCheck(t)
    \/ CreateBook(t)
    \/ CreateId(t)
    \/ CreateNew(t)
    \/ CreateKey(t)
    \/ CreateStore(t)
    \/ CreateLoadId(t)
    \/ CreateStoreId(t)

CancelSteps(t) ==
    \/ CancelGet(t)
    \/ CancelRelease(t)
    \/ CancelMark(t)
    \/ CancelDelete(t)

\* concurrent create_ticket calls
NextCreate ==
    \E t \in Threads : CallCreate(t, Threads, ConcBusArgs, MaxCalls) \/ CreateSteps(t)
SpecCreate == Init /\ [][NextCreate]_vars

\* concurrent create_ticket and cancel_ticket calls
NextConc ==
    \E t \in Threads :
        \/ CallCreate(t, Threads, RaceBusArgs, MaxRaceCalls)
        \/ CreateSteps(t)
        \/ CallCancel(t, Threads, MaxRaceCalls)
        \/ CancelSteps(t)
SpecConc == Init /\ [][NextConc]_vars

\* no call is in progress
Quiescent == \A t \in Threads : pc[t] = "idle"

\* the calls that returned a ticket
Succeeded == {c \in DOMAIN results :
                 /\ results[c].op = "create_ticket"
                 /\ results[c].raised = ""
                 /\ results[c].ret # None}

\* C1: under concurrent create_ticket calls the store never holds two tickets
\* with the same (bus, seat), and of the calls that ask for the same free seat
\* of a bus only one returns a ticket.
C1_NoDoubleBooking ==
    /\ \A i, j \in DOMAIN tickets :
          i # j => <<tickets[i].bus, tickets[i].seat>>
                     # <<tickets[j].bus, tickets[j].seat>>
    /\ \A c, d \in Succeeded :
          c # d => <<results[c].args.bus, results[c].args.seat>>
                     # <<results[d].args.bus, results[d].args.seat>>

\* C2: under concurrent create_ticket calls, also for different buses, no two
\* successful calls return the same ticket id, and once all calls have
\* completed every ticket returned is in the store under its own id.
C2_UniqueIdsAllStored ==
    /\ \A c, d \in Succeeded : c # d => results[c].ret.id # results[d].ret.id
    /\ Quiescent =>
          \A c \in Succeeded :
              /\ results[c].ret.id \in DOMAIN tickets
              /\ tickets[results[c].ret.id] = results[c].ret

\* C3: under concurrent cancel_ticket and create_ticket calls, once all calls
\* have completed a seat is booked on a bus if and only if exactly one ticket
\* of the store holds that (bus, seat).
C3_NoBindingLostOrDuplicated ==
    Quiescent =>
        /\ \A b \in DOMAIN booked : \A s \in booked[b] : Cardinality(Holders(b, s)) = 1
        /\ \A i \in DOMAIN tickets :
              /\ tickets[i].bus \in DOMAIN booked
              /\ tickets[i].seat \in booked[tickets[i].bus]
              /\ Cardinality(Holders(tickets[i].bus, tickets[i].seat)) = 1

\* the race of C3: two cancel_ticket calls for ticket 1 and a create_ticket
\* for its seat; one cancel succeeded, the other raised KeyError after it
\* released the seat of the new ticket, which the store still holds
C3_CancelRace ==
    /\ Quiescent
    /\ \E c, d \in DOMAIN results :
          /\ results[c].op = "cancel_ticket" /\ results[d].op = "cancel_ticket"
          /\ results[c].args.id = 1 /\ results[d].args.id = 1
          /\ results[c].raised = "" /\ results[c].ret = TRUE
          /\ results[d].raised = "KeyError"
    /\ \A c, d \in Succeeded : c # d => results[c].ret.id # results[d].ret.id
    /\ DOMAIN tickets = {2}
    /\ tickets[2].seat \notin booked[tickets[2].bus]

(***************************************************************************)
(* Seat range                                                              *)
(***************************************************************************)
\* the valid seats of a bus: S01 .. S<total_seats>
ValidSeats == {SeatId(i) : i \in 1..TotalSeats}

\* C11: after any sequence of create_ticket and cancel_ticket calls with
\* arbitrary seat arguments, the booked set of every bus is a subset of the
\* valid seats S01..S40, so that a bus never has more booked seats than
\* total_seats.
C11_BookedWithinValidSeats ==
    \A b \in DOMAIN booked :
        /\ booked[b] \subseteq ValidSeats
        /\ Cardinality(booked[b]) <= TotalSeats

(***************************************************************************)
(* The handlers of routes.py run by the threads of the server.  A client   *)
(* is the requests it sends: [threads |-> the threads that serve it,       *)
(* posts |-> the POST bodies, puts |-> the PUT bodies, each with what the  *)
(* handler makes of it before it reads the manager, ids |-> the ids of its *)
(* URLs, sinks |-> whether log_activity can fail, kept |-> the methods     *)
(* whose responses are recorded, max |-> the number of its requests].      *)
(* utils.log_activity prints the entry to standard output; when the write  *)
(* fails (a closed pipe, a full disk) print raises OSError inside the      *)
(* handler's try block.                                                    *)
(***************************************************************************)
\* the local variables of a handler that starts on request
Frame(c, request, args) ==
    [op |-> request.method, call |-> request.call, request |-> request,
     args |-> args, sinks |-> c.sinks, kept |-> request.method \in c.kept]

\* routes.py 71-86: what routes.create_ticket makes of the body data before
\* it reads the manager: the sanitized data, and the response if it returns
\* one; the ValueError of format_bus_number and format_seat_number is
\* caught at 124-125
Posted(data) ==
    LET sanitized_data == [name |-> sanitize_input(Get(data, "name")),
                           bus |-> format_bus_number(Get(data, "bus")),
                           seat |-> format_seat_number(Get(data, "seat"))]
        errors == validate_ticket_data(sanitized_data)
    IN IF DOMAIN data = {}
       THEN [data |-> data, args |-> [f \in {} |-> <<>>],
             resp |-> format_response(400, FALSE, None, "NO_DATA")]
       ELSE IF \/ format_bus_number_raises(Get(data, "bus"))
               \/ format_seat_number_raises(Get(data, "seat"))
       THEN [data |-> data, args |-> [f \in {} |-> <<>>],
             resp |-> format_response(500, FALSE, None, "CREATE_TICKET_ERROR")]
       ELSE IF errors # <<>>
       THEN [data |-> data, args |-> sanitized_data,
             resp |-> format_response(400, FALSE, [errors |-> errors],
                                      "VALIDATION_ERROR")]
       ELSE [data |-> data, args |-> sanitized_data, resp |-> None]

\* the seats that the bodies posted name: no other seat is ever in a booked
\* set
Named(posts) == {post.args.seat : post \in {p \in posts : p.resp = None}}

\* a thread receives POST /api/tickets; routes.py 71-86
PostCall(t, c) ==
    /\ Free(t, c.threads)
    /\ calls < c.max
    /\ calls' = calls + 1
    /\ \E post \in c.posts :
          LET frame == Frame(c, [method |-> "POST", call |-> calls + 1,
                                 data |-> post.data], post.args)
          IN IF post.resp # None
             THEN Answer(t, frame, post.resp, objs, stored)
             ELSE Goto(t, "post_available",
                       frame @@ [scanned |-> 0, available_seats |-> <<>>,
                                 named |-> Named(c.posts)],
                       objs, stored)
    /\ UNCHANGED <<booked, next_ticket_id, clock, seqVars, dbVars, monVars>>

\* routes.py 89-96 and models.py 152-153, 69-70: get_available_seats.  The
\* list comprehension tests one seat of all_seats against self.booked_seats
\* at a time.  The test of a seat that no request names finds the seat free
\* whenever it is made, so that a step is the test of the next seat that a
\* request names, with the tests of the seats before it, or the tests of
\* the seats that are left; with the last seat the handler goes on to
\* ticket_manager.create_ticket or returns 409.
PostAvailable(t) ==
    /\ pc[t] = "post_available"
    /\ IF loc[t].args.bus \notin DOMAIN booked
       THEN Answer(t, loc[t],
                   format_response(409, FALSE, [available_seats |-> <<>>],
                                   "SEAT_NOT_AVAILABLE"),
                   objs, stored)
       ELSE LET ahead == {i \in (loc[t].scanned + 1)..TotalSeats :
                            all_seats[i] \in loc[t].named}
                upto == IF ahead = {} THEN TotalSeats
                        ELSE CHOOSE i \in ahead : \A j \in ahead : i <= j
                available_seats ==
                    loc[t].available_seats
                    \o SelectSeq(SubSeq(all_seats, loc[t].scanned + 1, upto),
                                 LAMBDA seat : seat \notin booked[loc[t].args.bus])
            IN IF upto < TotalSeats
               THEN Goto(t, "post_available",
                         [loc[t] EXCEPT !.scanned = upto,
                                        !.available_seats = available_seats],
                         objs, stored)
               ELSE IF loc[t].args.seat \notin Range(available_seats)
               THEN Answer(t, loc[t],
                           format_response(409, FALSE,
                                           [available_seats |-> available_seats],
                                           "SEAT_NOT_AVAILABLE"),
                           objs, stored)
               ELSE Goto(t, "create_check", Locals(loc[t], HandlerLocals), objs, stored)
    /\ UNCHANGED <<booked, next_ticket_id, clock, seqVars, dbVars, monVars, calls>>

\* a thread receives GET /api/tickets/<id>; routes.py 131-133
GetLookup(t, c) ==
    /\ Free(t, c.threads)
    /\ calls < c.max
    /\ calls' = calls + 1
    /\ \E ticket_id \in c.ids :
          LET request == [method |-> "GET", call |-> calls + 1, id |-> ticket_id]
              frame == Frame(c, request, [id |-> ticket_id])
          IN IF ticket_id \notin DOMAIN stored
             THEN Answer(t, frame, format_response(404, FALSE, None, "TICKET_NOT_FOUND"),
                         objs, stored)
             ELSE Goto(t, "to_dict", DictSet(frame, "ticket", Ref(stored[ticket_id])),
                       objs, stored)
    /\ UNCHANGED <<booked, next_ticket_id, clock, seqVars, dbVars, monVars>>

\* a handler that lets every attribute of the ticket through
allowed_fields_any == TicketAttrs
\* routes.update_ticket: allowed_fields
allowed_fields == {"name"}

\* routes.py 162-167: the update_data that routes.update_ticket makes of the
\* body data
Put(data) ==
    [data |-> data,
     update_data |-> [field \in allowed_fields \cap DOMAIN data |->
                        sanitize_input(data[field])]]

\* a thread receives PUT /api/tickets/<id>; routes.py 153-170
PutLookup(t, c) ==
    /\ Free(t, c.threads)
    /\ calls < c.max
    /\ calls' = calls + 1
    /\ \E ticket_id \in c.ids, put \in c.puts :
          LET frame == Frame(c, [method |-> "PUT", call |-> calls + 1, id |-> ticket_id,
                                 data |-> put.data], [id |-> ticket_id])
          IN IF ticket_id \notin DOMAIN stored
             THEN Answer(t, frame, format_response(404, FALSE, None, "TICKET_NOT_FOUND"),
                         objs, stored)
             ELSE IF DOMAIN put.data = {}
             THEN Answer(t, frame, format_response(400, FALSE, None, "NO_DATA"),
                         objs, stored)
             ELSE IF DOMAIN put.update_data = {}
             THEN Answer(t, frame, format_response(400, FALSE, None, "NO_VALID_FIELDS"),
                         objs, stored)
             ELSE Goto(t, "update_get", DictSet(frame, "update_data", put.update_data),
                       objs, stored)
    /\ UNCHANGED <<booked, next_ticket_id, clock, seqVars, dbVars, monVars>>

\* routes.py 173 and models.py 122-124: update_ticket(ticket_id,
\* **update_data) looks the ticket up again.  A keyword argument named self
\* or ticket_id is a second value for the parameter and raises TypeError.
\* When the ticket is gone update_ticket returns None, and the handler
\* raises AttributeError at updated_ticket.to_dict(), routes.py 180, if
\* log_activity has not raised before.
UpdateGet(t) ==
    /\ pc[t] = "update_get"
    /\ IF \/ DOMAIN loc[t].update_data \cap {"self", "ticket_id"} # {}
          \/ loc[t].args.id \notin DOMAIN stored
       THEN Answer(t, loc[t], format_response(500, FALSE, None, ErrorCode("PUT")),
                   objs, stored)
       ELSE Goto(t, "update_set", DictSet(loc[t], "ticket", Ref(stored[loc[t].args.id])),
                 objs, stored)
    /\ UNCHANGED <<booked, next_ticket_id, clock, seqVars, dbVars, monVars, calls>>

\* models.py 125-127 and 30-34: ticket.update(**update_data), on the shared
\* object; then routes.py 175, log_activity
UpdateSet(t) ==
    /\ pc[t] = "update_set"
    /\ LET ticket == objs[loc[t].ticket.ref]
           updated == IF Shadowed(ticket, "update")
                      THEN [t |-> ticket, raised |-> "TypeError"]
                      ELSE TicketUpdate(ticket, Items(loc[t].update_data))
           heap == [objs EXCEPT ![loc[t].ticket.ref] = updated.t]
       IN \E sink_fails \in loc[t].sinks :
             IF updated.raised # "" \/ sink_fails
             THEN Answer(t, loc[t], format_response(500, FALSE, None, ErrorCode("PUT")),
                         heap, stored)
             ELSE Goto(t, "to_dict", Locals(loc[t], DOMAIN loc[t] \ {"update_data"}),
                       heap, stored)
    /\ UNCHANGED <<booked, next_ticket_id, clock, seqVars, dbVars, monVars, calls>>

\* a thread receives DELETE /api/tickets/<id>; routes.py 190 calls
\* cancel_ticket
DeleteCall(t, c) ==
    /\ Free(t, c.threads)
    /\ calls < c.max
    /\ calls' = calls + 1
    /\ \E ticket_id \in c.ids :
          Goto(t, "cancel_get",
               Frame(c, [method |-> "DELETE", call |-> calls + 1, id |-> ticket_id],
                     [id |-> ticket_id]),
               objs, stored)
    /\ UNCHANGED <<booked, next_ticket_id, clock, seqVars, dbVars, monVars>>

\* models.py 21-26, called at routes.py 112, 135 and 180: ticket.to_dict()
\* reads the attributes of the object up to booking_time, of which a PUT can
\* set the name
ToDict(t) ==
    /\ pc[t] = "to_dict"
    /\ LET ticket == objs[loc[t].ticket.ref]
       IN IF to_dict_raises(ticket) # ""
          THEN Answer(t, loc[t], format_response(500, FALSE, None, ErrorCode(loc[t].op)),
                      objs, stored)
          ELSE Goto(t, "to_dict_status", DictSet(loc[t], "dict", to_dict(ticket)),
                    objs, stored)
    /\ UNCHANGED <<booked, next_ticket_id, clock, seqVars, dbVars, monVars, calls>>

\* models.py 27: to_dict reads the status, which a DELETE can set; then the
\* handler builds its response: routes.py 109-122 for POST, whose fare is
\* that of the sanitized data, 136-144 for GET, whose fare is that of the
\* ticket, and 177-181 for PUT, which has called log_activity before
ToDictStatus(t) ==
    /\ pc[t] = "to_dict_status"
    /\ LET ticket == objs[loc[t].ticket.ref]
           dict == [loc[t].dict EXCEPT !.status = ticket.status]
           priced(bus, seat) == [ticket |-> dict,
                                 seat_type |-> get_seat_type(seat),
                                 fare |-> calculate_fare(bus, get_seat_type(seat))]
       IN \E sink_fails \in (IF loc[t].op = "PUT" THEN {FALSE} ELSE loc[t].sinks) :
             Answer(t, loc[t],
                    IF sink_fails
                    THEN format_response(500, FALSE, None, ErrorCode(loc[t].op))
                    ELSE IF loc[t].op = "POST"
                    THEN format_response(201, TRUE,
                                         priced(loc[t].args.bus, loc[t].args.seat), "")
                    ELSE IF loc[t].op = "GET"
                    THEN format_response(200, TRUE, priced(ticket.bus, ticket.seat), "")
                    ELSE format_response(200, TRUE, [ticket |-> dict], ""),
                    objs, stored)
    /\ UNCHANGED <<booked, next_ticket_id, clock, seqVars, dbVars, monVars, calls>>

\* the steps of the handlers
PostSteps(t) ==
    \/ PostAvailable(t)
    \/ CreateSteps(t)
    \/ ToDict(t)
    \/ ToDictStatus(t)

HandlerSteps(t) ==
    \/ PostSteps(t)
    \/ UpdateGet(t)
    \/ UpdateSet(t)
    \/ CancelSteps(t)

\* what a client sends: every method
Requests(t, c) ==
    \/ PostCall(t, c)
    \/ GetLookup(t, c)
    \/ PutLookup(t, c)
    \/ DeleteCall(t, c)

\* the bodies posted concurrently
RaceBodies ==
    {[name |-> name, bus |-> <<"b", "u", "s", "1">>, seat |-> SeatId(1)] :
        name \in {<<"A", "l">>, <<"A", "1">>}}

RacePosts == {Posted(data) : data \in RaceBodies}

PostClient ==
    [threads |-> Threads, posts |-> RacePosts, sinks |-> {FALSE}, kept |-> {"POST"},
     max |-> MaxPosts]

NextPost == \E t \in Threads : PostCall(t, PostClient) \/ PostSteps(t)

\* concurrent POST /api/tickets requests
SpecPost == Init /\ [][NextPost]_vars

\* the requests answered so far
Answered == {c \in DOMAIN results : "success" \in DOMAIN results[c].ret}

\* C12: a POST with valid input that fails because the seat of a known bus is
\* booked is answered 409 SEAT_NOT_AVAILABLE with the list of available
\* seats of the bus, which does not hold the requested seat, whatever the
\* interleaving of the concurrent requests for that seat.
C12_TakenSeatIsConflict ==
    \A c \in Answered :
        LET args == results[c].args
            response == results[c].ret
        IN (/\ validate_ticket_data(args) = <<>>
            /\ args.bus \in BusNumbers
            /\ ~response.success)
           => /\ response.status = 409
              /\ response.error_code = "SEAT_NOT_AVAILABLE"
              /\ args.seat \notin Range(response.data.available_seats)

(***************************************************************************)
(* routes.py: every method on /api/tickets and /api/tickets/<id>, served   *)
(* by the threads of the server                                            *)
(***************************************************************************)
ApiPosts == {Posted(data) : data \in PostBodies}
ApiPuts == {Put(data) : data \in PutBodies}

ApiClient ==
    [threads |-> Servers, posts |-> ApiPosts, puts |-> ApiPuts, ids |-> ApiIdArgs,
     sinks |-> {FALSE}, kept |-> {}, max |-> MaxApiRequests]

NextApi == \E t \in Servers : Requests(t, ApiClient) \/ HandlerSteps(t)

\* routes.py: ticket_manager = TicketManager(), then the requests
SpecApi == Init /\ [][NextApi]_vars

\* routes.py for a client who books two seats, renames the tickets and
\* cancels them: the PUT bodies carry a name alone, a name with the other
\* fields, and the other fields alone
RenamePostBodies == {PostBody, [PostBody EXCEPT !.seat = <<"2">>]}
RenamePutBodies == {[name |-> <<"A", "l">>], PutBody, PutOthers}
RenameIdArgs == {1, 2}

RenamePosts == {Posted(data) : data \in RenamePostBodies}
RenamePuts == {Put(data) : data \in RenamePutBodies}

RenameClient ==
    [threads |-> Servers, posts |-> RenamePosts, puts |-> RenamePuts,
     ids |-> RenameIdArgs, sinks |-> {FALSE}, kept |-> {}, max |-> MaxRenameRequests]

NextRename ==
    \E t \in Servers :
        \/ PostCall(t, RenameClient)
        \/ PutLookup(t, RenameClient)
        \/ DeleteCall(t, RenameClient)
        \/ HandlerSteps(t)

SpecRename == Init /\ [][NextRename]_vars

\* the requests that a step can belong to: the one answered and the ones
\* that are being handled after it
Handled == {req'} \cup {loc'[t].request : t \in {u \in Servers : pc'[u] # "idle"}}

\* the step is one of the handler of request: the step that answers it, or a
\* step of the thread that goes on handling it
StepOf(request) ==
    \/ req' # req /\ req' = request
    \/ \E t \in Servers :
          /\ pc'[t] # "idle"
          /\ <<pc[t], loc[t]>> # <<pc'[t], loc'[t]>>
          /\ loc'[t].request = request

\* the step answers a request
Answers == req' # req

\* ticket u is ticket t, or differs from it in the name alone: the other
\* attributes and what GET reports of it are the same
SameButName(t, u) ==
    \/ u = t
    \/ /\ u.id = t.id
       /\ u.bus = t.bus
       /\ u.seat = t.seat
       /\ u.status = t.status
       /\ u.booking_time = t.booking_time
       /\ ticket_data(u).fare = ticket_data(t).fare
       /\ ticket_data(u).seat_type = ticket_data(t).seat_type

\* C7: PUT /api/tickets/<id> changes nothing but the passenger name of that
\* ticket, whatever fields its body carries and whatever the other threads
\* do between its steps: at every step of its handler the id, bus, seat,
\* status, booking time, reported fare and seat class of every Ticket object,
\* stored or held by a thread, the keys of the store, the other tickets, the
\* booked sets and the next ticket id stay; a body with no name field is
\* rejected and changes nothing.
C7_PutChangesOnlyName ==
    [][\A request \in Handled :
         (request.method = "PUT" /\ StepOf(request)) =>
            /\ UNCHANGED <<stored, booked, next_ticket_id>>
            /\ \A r \in DOMAIN objs \cap DOMAIN objs' : SameButName(objs[r], objs'[r])
            /\ \A i \in DOMAIN tickets :
                  /\ SameButName(tickets[i], tickets'[i])
                  /\ i # request.id => tickets'[i] = tickets[i]
            /\ "name" \notin DOMAIN request.data
               => /\ tickets' = tickets
                  /\ \A r \in DOMAIN objs \cap DOMAIN objs' : objs'[r] = objs[r]
                  /\ Answers /\ ~resp'.success]_vars

\* a PUT whose body carried a name, a bus, a seat and a status was applied,
\* and its handler has not yet answered: the ticket has the new name and its
\* old bus and seat
C7_Witness ==
    \E t \in Servers :
        /\ loc[t].op = "PUT"
        /\ pc[t] = "to_dict"
        /\ DOMAIN loc[t].request.data = {"name"} \cup DOMAIN PutOthers
        /\ loc[t].request.data.name = <<" ", "B", "o">>
        /\ loc[t].request.id \in DOMAIN tickets
        /\ tickets[loc[t].request.id] = objs[loc[t].ticket.ref]
        /\ tickets[loc[t].request.id].name = <<"B", "o">>
        /\ tickets[loc[t].request.id].bus = BUS001
        /\ tickets[loc[t].request.id].seat \in booked[BUS001]

\* C8: a PUT whose new name fails validate_passenger_name is answered with a
\* failure and leaves the stored name as it was, so that every ticket of the
\* store carries a valid name at all times: no step of its handler changes
\* the store, and its response is a failure.
C8_InvalidNameRejected ==
    [][/\ \A i \in DOMAIN tickets' : validate_passenger_name(tickets'[i].name)
       /\ \A request \in Handled :
            (/\ request.method = "PUT"
             /\ StepOf(request)
             /\ "name" \in DOMAIN request.data
             /\ ~validate_passenger_name(request.data.name))
            => /\ tickets' = tickets
               /\ Answers => ~resp'.success]_vars

\* the bus a POST body asks for is well formed and not a bus of the manager
AsksUnknownBus(data) ==
    LET bus == format_bus_number(Get(data, "bus"))
    IN validate_bus_number(bus) /\ bus \notin BusNumbers

\* C9: POST /api/tickets for a well-formed bus code that is not a configured
\* bus fails with an error kind other than the seat-unavailable one, books no
\* seat, stores no ticket and consumes no ticket id.
C9_UnknownBusIsItsOwnError ==
    [][\A request \in Handled :
         (/\ request.method = "POST"
          /\ StepOf(request)
          /\ AsksUnknownBus(request.data))
         => /\ UNCHANGED <<tickets, booked, next_ticket_id>>
            /\ Answers => ~resp'.success /\ resp'.error_code # "SEAT_NOT_AVAILABLE"]_vars

\* the seat a POST body asks for has the form Snn with nn outside 1..TotalSeats
AsksSeatOutOfRange(data) ==
    LET seat == format_seat_number(Get(data, "seat"))
    IN /\ validate_seat_number(seat)
       /\ PyInt(SubSeq(seat, 2, Len(seat))) \notin 1..TotalSeats

\* C10: POST /api/tickets for a seat Snn whose position is outside 1..40 is
\* rejected with the validation error kind, not the seat-unavailable one, and
\* nothing is booked and no ticket is stored.
C10_SeatOutOfRangeIsInvalid ==
    [][\A request \in Handled :
         (/\ request.method = "POST"
          /\ StepOf(request)
          /\ AsksSeatOutOfRange(request.data))
         => /\ UNCHANGED <<tickets, booked, next_ticket_id>>
            /\ Answers => ~resp'.success /\ resp'.error_code = "VALIDATION_ERROR"]_vars

(***************************************************************************)
(* Cancellation, one caller at a time                                      *)
(***************************************************************************)
\* C13: cancel_ticket(id) returns True exactly when id is in the ticket
\* store; for an unknown or already cancelled id it returns False and leaves
\* the store, every booked set and the next ticket id as they were; after a
\* successful cancel the id is out of the store, so that a second cancel of
\* it returns False and releases no seat.
C13_CancelReportsPresence ==
    [][last'.op = "cancel_ticket" =>
         /\ last'.ret = (last'.id \in DOMAIN tickets)
         /\ ~last'.ret => UNCHANGED <<tickets, booked, next_ticket_id>>
         /\ last'.ret => last'.id \notin DOMAIN tickets']_vars

\* a cancel of an id that was issued and already cancelled returned False
\* while another ticket holds a seat
C13_Witness ==
    /\ last.op = "cancel_ticket"
    /\ last.ret = FALSE
    /\ last.id \in Range(issued)
    /\ DOMAIN tickets # {}
    /\ \E b \in DOMAIN booked : booked[b] # {}

(***************************************************************************)
(* The TicketManager used by one caller at a time, with the record of the  *)
(* calls made: results[c] is call number c, its arguments and what it      *)
(* returned.                                                               *)
(***************************************************************************)
\* the exception get_all_tickets raises ("" if none): that of the first
\* ticket of the store, which is in the order of the ids, whose to_dict raises
get_all_tickets_raises(m) ==
    LET failing == {tid \in DOMAIN m.tickets : to_dict_raises(m.tickets[tid]) # ""}
    IN IF failing = {} THEN ""
       ELSE to_dict_raises(m.tickets[CHOOSE tid \in failing :
                                        \A other \in failing : tid <= other])
\* models.TicketManager.get_all_tickets
get_all_tickets(m) ==
    IF get_all_tickets_raises(m) # "" THEN [raised |-> get_all_tickets_raises(m)]
    ELSE [tid \in DOMAIN m.tickets |-> to_dict(m.tickets[tid])]

\* arguments of the recorded calls
HistBusArgs == {BUS001, BUS999}
HistSeatArgs == {SeatId(1), SeatId(2), SeatId(41)}
HistIdArgs == 1..(MaxHistory - 1)

\* call number calls + 1 is made and returns
Record(op, args, ret) ==
    /\ calls < MaxHistory
    /\ calls' = calls + 1
    /\ results' = DictSet(results, calls + 1,
                          [op |-> op, args |-> args, ret |-> ret, raised |-> ""])
    /\ last' = [op |-> op, args |-> args, ret |-> ret]
    /\ UNCHANGED <<pc, loc, objs, stored, apiVars, dbVars, monVars>>

HistCreate ==
    \E bus \in HistBusArgs, seat \in HistSeatArgs :
        LET r == create_ticket(Mgr, ConcName, bus, seat)
        IN /\ SetMgr(r.m)
           /\ Record("create_ticket", [name |-> ConcName, bus |-> bus, seat |-> seat],
                     r.ret)
           /\ issued' = IF r.ret # None THEN Append(issued, r.ret.id) ELSE issued

HistCancel ==
    \E ticket_id \in HistIdArgs :
        LET r == cancel_ticket(Mgr, ticket_id)
        IN /\ SetMgr(r.m)
           /\ Record("cancel_ticket", [id |-> ticket_id], r.ret)
           /\ UNCHANGED issued

HistUpdate ==
    \E ticket_id \in HistIdArgs :
        LET r == update_ticket(Mgr, ticket_id, <<<<"name", <<"B", "o">>>>>>)
        IN /\ SetMgr(r.m)
           /\ Record("update_ticket", [id |-> ticket_id, name |-> <<"B", "o">>], r.ret)
           /\ UNCHANGED issued

NextHistory == HistCreate \/ HistCancel \/ HistUpdate

SpecHistory == Init /\ [][NextHistory]_vars

\* call c was a cancel_ticket that returned True
CancelledAt(c) == results[c].op = "cancel_ticket" /\ results[c].ret = TRUE

\* call c was a create_ticket(_, bus, seat); it returned a ticket
CreateAt(c, bus, seat) ==
    /\ results[c].op = "create_ticket"
    /\ results[c].args.bus = bus
    /\ results[c].args.seat = seat
CreatedAt(c, bus, seat) == CreateAt(c, bus, seat) /\ results[c].ret # None

\* C14: once cancel_ticket(id) has returned True, in every later state,
\* whatever calls follow, get_ticket(id) returns None and id is not a key of
\* get_all_tickets: no later create_ticket brings the id back.
C14_CancelledIdStaysGone ==
    \A c \in DOMAIN results :
        CancelledAt(c) =>
            /\ get_ticket(Mgr, results[c].args.id) = None
            /\ results[c].args.id \notin DOMAIN get_all_tickets(Mgr)

\* a ticket was created and stored after an earlier ticket had been cancelled
C14_Witness ==
    \E c, d \in DOMAIN results :
        /\ c < d
        /\ CancelledAt(c)
        /\ results[d].op = "create_ticket"
        /\ results[d].ret # None
        /\ results[d].ret.id \in DOMAIN tickets

\* create_ticket(_, bus, seat) returned a ticket at call c, which call d
\* cancelled
BookedThenCancelled(c, d, bus, seat) ==
    /\ c < d
    /\ CreatedAt(c, bus, seat)
    /\ CancelledAt(d)
    /\ results[d].args.id = results[c].ret.id

\* no call after d and before e booked (bus, seat)
NotBookedBetween(d, e, bus, seat) ==
    \A x \in DOMAIN results : (d < x /\ x < e) => ~CreatedAt(x, bus, seat)

\* C15: for a known bus B and a valid seat S, when create_ticket(n1, B, S)
\* succeeded and that ticket was cancelled, then as long as (B, S) is not
\* booked again S is in get_available_seats(B), and the next
\* create_ticket(n2, B, S) succeeds and returns a ticket with a greater id
\* than the cancelled one.
C15_CancelThenRebook ==
    \A c, d \in DOMAIN results :
        LET bus == results[c].args.bus
            seat == results[c].args.seat
        IN (/\ results[c].op = "create_ticket"
            /\ bus \in BusNumbers
            /\ seat \in ValidSeats
            /\ BookedThenCancelled(c, d, bus, seat))
           => /\ NotBookedBetween(d, calls + 1, bus, seat)
                    => seat \in Range(get_available_seats(Mgr, bus))
              /\ \A e \in DOMAIN results :
                    (d < e /\ CreateAt(e, bus, seat) /\ NotBookedBetween(d, e, bus, seat))
                        => /\ results[e].ret # None
                           /\ results[e].ret.id > results[c].ret.id

\* S01 of BUS001 was booked, cancelled, and booked again after a call in between
C15_Witness ==
    \E c, d, e \in DOMAIN results :
        /\ BookedThenCancelled(c, d, BUS001, SeatId(1))
        /\ d + 1 < e
        /\ CreatedAt(e, BUS001, SeatId(1))
        /\ NotBookedBetween(d, e, BUS001, SeatId(1))

(***************************************************************************)
(* routes.py with the record of what each POST reported: results[c] is     *)
(* request number c, a POST, with its response.                            *)
(***************************************************************************)
\* the bodies sent: seats of the three classes on buses of both base fares
FarePostBodies ==
    {[name |-> <<"A", "l">>, bus |-> <<"b", "u", "s", "1">>, seat |-> seat] :
        seat \in {SeatId(1), <<"3", "1">>}}
    \cup {[name |-> <<"A", "l">>, bus |-> <<"3">>, seat |-> seat] :
             seat \in {SeatId(1), <<"1", "1">>}}
FarePutBodies ==
    {[f \in fields \cup {"name"} |->
         IF f = "name" THEN <<"B", "o">> ELSE PutOthers[f]] :
        fields \in {{}, DOMAIN PutOthers}}
FareIdArgs == {1, 2}

FarePosts == {Posted(data) : data \in FarePostBodies}
FarePuts == {Put(data) : data \in FarePutBodies}

FareClient ==
    [threads |-> Servers, posts |-> FarePosts, puts |-> FarePuts,
     ids |-> FareIdArgs, sinks |-> {FALSE}, kept |-> {"POST"}, max |-> MaxFareRequests]

NextFare == \E t \in Servers : Requests(t, FareClient) \/ HandlerSteps(t)

SpecFare == Init /\ [][NextFare]_vars

\* the POSTs whose response announced the creation of ticket ticket_id
Announced(ticket_id) ==
    {c \in DOMAIN results :
        results[c].ret.success /\ results[c].ret.data.ticket.id = ticket_id}

\* C16: GET /api/tickets/<id> reports, at any time after the creation of the
\* ticket and after any create, update and cancel requests on this or other
\* tickets, the fare and the seat class that the response of the POST that
\* created the ticket reported.
C16_FareAndClassFrozen ==
    (req.method = "GET" /\ resp.success) =>
        \A c \in Announced(req.id) :
            /\ resp.data.fare = results[c].ret.data.fare
            /\ resp.data.seat_type = results[c].ret.data.seat_type

(***************************************************************************)
(* routes.create_ticket with bodies whose fields are JSON strings or JSON  *)
(* numbers.  A field value is [str |-> s] or [int |-> n], n >= 0.          *)
(***************************************************************************)
JStr(s) == [str |-> s]
JInt(n) == [int |-> n]
IsInt(v) == "int" \in DOMAIN v

\* Python's truth value of the field: not v
Falsy(v) == IF IsInt(v) THEN v.int = 0 ELSE v.str = <<>>

\* str(n)
RECURSIVE PyStr(_)
PyStr(n) == IF n < 10 THEN <<DigitSeq[n + 1]>>
            ELSE PyStr(n \div 10) \o <<DigitSeq[(n % 10) + 1]>>

\* the text the helpers of utils.py work on for a field they accept: '' for
\* a value that is not true (utils.py 35, 52, 66), str(v) in sanitize_input
\* (utils.py 70)
PyText(v) == IF Falsy(v) THEN <<>> ELSE IF IsInt(v) THEN PyStr(v.int) ELSE v.str

\* re.sub and re.findall raise TypeError on a number: utils.py 39 in
\* format_seat_number, 56 in format_bus_number
RaisesTypeError(data) ==
    \E f \in {"bus", "seat"} \cap DOMAIN data : IsInt(data[f]) /\ ~Falsy(data[f])

\* routes.create_ticket (POST /api/tickets) on such a body: the TypeError is
\* caught at routes.py 124-125
route_create_ticket_json(m, data) ==
    IF DOMAIN data # {} /\ RaisesTypeError(data)
    THEN [m |-> m, resp |-> format_response(500, FALSE, None, "CREATE_TICKET_ERROR")]
    ELSE route_create_ticket(m, [f \in DOMAIN data |-> PyText(data[f])])

\* the field values sent
JsonValues ==
    [name |-> {JStr(<<"A", "l">>), JStr(<<"A", "1">>), JStr(<<>>), JInt(5)},
     bus |-> {JStr(<<"b", "u", "s", "1">>), JStr(<<"x">>), JInt(1)},
     seat |-> {JStr(SeatId(1)), JStr(<<"2">>), JStr(<<"x">>), JInt(5), JInt(0)}]
JsonBodies ==
    UNION {{body \in [fields -> UNION {JsonValues[f] : f \in fields}] :
               \A f \in fields : body[f] \in JsonValues[f]}
           : fields \in SUBSET DOMAIN JsonValues}

JsonPost ==
    \E data \in JsonBodies :
        /\ next_ticket_id <= MaxJsonTickets
        /\ Handle([method |-> "POST", data |-> data],
                  route_create_ticket_json(Mgr, data))

NextJson == JsonPost \/ GetTicket \/ DeleteTicket

SpecJson == Init /\ [][NextJson]_vars

\* field f of the body is missing, or is not a string, or is a string that
\* the validator of the field rejects once sanitized or formatted
InvalidField(data, f) ==
    \/ f \notin DOMAIN data
    \/ IsInt(data[f])
    \/ data[f].str = <<>>
    \/ f = "name" /\ ~validate_passenger_name(sanitize_input(data[f].str))
    \/ f = "bus" /\ ~validate_bus_number(format_bus_number(data[f].str))
    \/ f = "seat" /\ ~validate_seat_number(format_seat_number(data[f].str))

\* C17: POST /api/tickets whose name, bus or seat field is missing or invalid
\* is answered with a validation error, status 400 and success false, and
\* leaves the ticket store, every booked set and the next ticket id unchanged.
C17_InvalidFieldIs400 ==
    [][(/\ req'.method = "POST"
        /\ \E f \in {"name", "bus", "seat"} : InvalidField(req'.data, f))
       => /\ resp'.status = 400
          /\ ~resp'.success
          /\ UNCHANGED <<tickets, booked, next_ticket_id>>]_vars

(***************************************************************************)
(* Available seats                                                         *)
(***************************************************************************)
\* the position a seat identifier Snn stands for
SeatPosition(seat) == IntOf(Tail(seat))
\* the positions of the valid seats
PositionOf == [seat \in ValidSeats |-> SeatPosition(seat)]

\* C18: for every bus of the manager, get_available_seats returns exactly
\* the seats among S01..S40 that are not in the booked set of the bus, each
\* once and in ascending position order; when S01 and S02 are the booked
\* seats it returns the 38 seats S03..S40.
C18_AvailableSeatsExact ==
    \A b \in BusNumbers :
        LET available == get_available_seats(Mgr, b)
        IN /\ Range(available) = ValidSeats \ booked[b]
           /\ \A i \in 1..(Len(available) - 1) :
                 PositionOf[available[i]] < PositionOf[available[i + 1]]
           /\ booked[b] = {SeatId(1), SeatId(2)} =>
                 /\ Len(available) = 38
                 /\ available = [i \in 1..38 |-> SeatId(i + 2)]

\* S01 and S02 of BUS001 are the booked seats of the bus after a create_ticket
C18_Witness ==
    /\ last.op = "create_ticket"
    /\ last.ret # None
    /\ booked[BUS001] = {SeatId(1), SeatId(2)}

(***************************************************************************)
(* Occupancy.  A rate is in ten-thousandths of a percent as               *)
(* get_occupancy_rate returns it, and in hundredths of a percent once      *)
(* rounded to 2 decimals, so that 25.0 is 250000 and then 2500.            *)
(***************************************************************************)
\* an occupancy computed from the seats that are left
get_occupancy_rate_left(booked_seats) ==
    (Len(get_available_seats_of(booked_seats)) * 100 * 10000) \div TotalSeats
\* models.Bus.get_occupancy_rate: len(booked_seats) / total_seats * 100; the
\* float differs from this value by its rounding error at most
get_occupancy_rate(booked_seats) ==
    (Cardinality(booked_seats) * 100 * 10000) \div TotalSeats

\* round(rate, 2): the nearest hundredth, the even one of two equally near
round2(rate) ==
    LET hundredths == rate \div 100
        rest == rate % 100
    IN IF rest > 50 \/ (rest = 50 /\ hundredths % 2 = 1)
       THEN hundredths + 1 ELSE hundredths

\* models.Bus.to_dict
bus_to_dict(bus_number, booked_seats) ==
    [bus_number |-> bus_number,
     total_seats |-> TotalSeats,
     booked_seats |-> Cardinality(booked_seats),
     available_seats |-> Len(get_available_seats_of(booked_seats)),
     occupancy_rate |-> round2(get_occupancy_rate(booked_seats))]

\* models.TicketManager.get_bus_info
get_bus_info(m, bus_number) ==
    IF bus_number \in DOMAIN m.booked
    THEN bus_to_dict(bus_number, m.booked[bus_number]) ELSE None

\* A caller fills BUS001 seat by seat, S01, S02, ..., and then cancels the
\* tickets from either end of the store.
FillCreate ==
    /\ next_ticket_id <= MaxFill
    /\ Cardinality(DOMAIN tickets) = next_ticket_id - 1
    /\ LET seat == SeatId(next_ticket_id)
           r == create_ticket(Mgr, ConcName, BUS001, seat)
       IN /\ SetMgr(r.m)
          /\ last' = [op |-> "create_ticket", bus |-> BUS001, seat |-> seat,
                      ret |-> r.ret]
          /\ issued' = IF r.ret # None THEN Append(issued, r.ret.id) ELSE issued
          /\ UNCHANGED <<thrVars, apiVars, dbVars, monVars>>

FillCancel ==
    \E ticket_id \in DOMAIN tickets :
        /\ \/ \A i \in DOMAIN tickets : ticket_id <= i
           \/ \A i \in DOMAIN tickets : ticket_id >= i
        /\ LET r == cancel_ticket(Mgr, ticket_id)
           IN /\ SetMgr(r.m)
              /\ last' = [op |-> "cancel_ticket", id |-> ticket_id, ret |-> r.ret]
              /\ UNCHANGED <<issued, thrVars, apiVars, dbVars, monVars>>

NextFill == FillCreate \/ FillCancel

SpecFill == Init /\ [][NextFill]_vars

\* C19: the occupancy rate of every bus is booked seats / total seats x 100,
\* the bus summary reports it rounded to 2 decimals, and it lies in the
\* closed range 0 to 100.
C19_OccupancyWithinRange ==
    \A b \in BusNumbers :
        LET rate == get_occupancy_rate(booked[b])
            summary == get_bus_info(Mgr, b)
        IN /\ rate * TotalSeats = Cardinality(booked[b]) * 100 * 10000
           /\ summary.occupancy_rate * TotalSeats = Cardinality(booked[b]) * 100 * 100
           /\ 0 <= rate /\ rate <= 100 * 10000
           /\ 0 <= summary.occupancy_rate /\ summary.occupancy_rate <= 100 * 100

\* the ten seats S01..S10
FirstTen == {SeatId(i) : i \in 1..10}

\* C20: with S01..S10 booked on an empty 40-seat bus the occupancy rate is
\* 25.0, and it is 0.0 again once those ten tickets are cancelled; a
\* successful create_ticket followed by cancel_ticket of the ticket it
\* returned restores the booked set and the occupancy rate of every bus.
C20_OccupancyRoundTrip ==
    /\ booked[BUS001] = FirstTen =>
          /\ get_occupancy_rate(booked[BUS001]) = 250000
          /\ get_bus_info(Mgr, BUS001).occupancy_rate = 2500
    /\ (Len(issued) = 10 /\ DOMAIN tickets = {}) =>
          /\ get_occupancy_rate(booked[BUS001]) = 0
          /\ get_bus_info(Mgr, BUS001).occupancy_rate = 0
    /\ \A bus \in BusArgs, seat \in SeatArgs \cup {SeatId(next_ticket_id)} :
          LET created == create_ticket(Mgr, ConcName, bus, seat)
              cancelled == cancel_ticket(created.m, created.ret.id)
          IN created.ret # None =>
                /\ cancelled.ret
                /\ cancelled.m.booked = booked
                /\ \A b \in BusNumbers :
                      get_occupancy_rate(cancelled.m.booked[b])
                         = get_occupancy_rate(booked[b])

\* ten tickets S01..S10 were created and all ten have been cancelled
C20_Witness ==
    /\ Len(issued) = 10
    /\ DOMAIN tickets = {}
    /\ last.op = "cancel_ticket"
    /\ last.ret = TRUE
    /\ get_occupancy_rate(booked[BUS001]) = 0

(***************************************************************************)
(* utils.calculate_fare and utils.get_seat_type, called directly with      *)
(* arguments of every kind while the TicketManager is created into and     *)
(* cancelled from.                                                         *)
(***************************************************************************)
\* the largest two-digit seat position get_seat_type is called with
MaxSeatArg == 99

FareBusArgs == BusNumbers \cup {BUS999}
FareClassArgs == {"standard", "premium", "sleeper", "luxury"}
\* S00 .. S99, and strings that validate_seat_number rejects
SeatTypeArgs ==
    {SeatId(i) : i \in 0..MaxSeatArg}
        \cup {<<>>, <<"x">>, <<"5">>, <<"S", "1">>, <<"S", "0", "0", "1">>,
              <<"S", "1", "A">>, <<"I", "N", "V", "A", "L", "I", "D">>}

CallCalculateFare ==
    \E bus \in FareBusArgs, seat_type \in FareClassArgs :
        /\ last' = [op |-> "calculate_fare", bus |-> bus, seat_type |-> seat_type,
                    ret |-> calculate_fare(bus, seat_type)]
        /\ UNCHANGED <<mgrVars, issued, thrVars, apiVars, dbVars, monVars>>

CallGetSeatType ==
    \E seat \in SeatTypeArgs :
        /\ last' = [op |-> "get_seat_type", seat |-> seat, ret |-> get_seat_type(seat)]
        /\ UNCHANGED <<mgrVars, issued, thrVars, apiVars, dbVars, monVars>>

\* the number of tickets created around the calls
MaxUtilTickets == 1

UtilsCreate == CreateTicketUpTo(MaxUtilTickets)

NextUtils == CallCalculateFare \/ CallGetSeatType \/ UtilsCreate \/ CancelTicket

SpecUtils == Init /\ [][NextUtils]_vars

\* the multipliers of the fare table, in tenths
BusMultiplier(bus) == IF bus \in {BUS001, BUS002} THEN 15 ELSE 10
ClassMultiplier == [standard |-> 10, premium |-> 13, sleeper |-> 15]

\* C21: calculate_fare(bus, class) is 50.0 x busMultiplier x classMultiplier,
\* with busMultiplier 1.5 for BUS001 and BUS002 and 1.0 for every other bus,
\* and classMultiplier 1.0, 1.3, 1.5 for standard, premium, sleeper; the value
\* depends on the arguments alone, in whatever state the manager is, and is
\* 97.5, 75.0, 65.0, 75.0 for BUS001 premium, BUS003 sleeper, BUS003 premium,
\* BUS001 standard (fares in tenths).
C21_FareIsProductOfMultipliers ==
    /\ \A bus \in FareBusArgs, seat_type \in DOMAIN ClassMultiplier :
           calculate_fare(bus, seat_type) * 100
               = 500 * BusMultiplier(bus) * ClassMultiplier[seat_type]
    /\ last.op = "calculate_fare" /\ last.seat_type \in DOMAIN ClassMultiplier
           => last.ret * 100
                  = 500 * BusMultiplier(last.bus) * ClassMultiplier[last.seat_type]
    /\ calculate_fare(BUS001, "premium") = 975
    /\ calculate_fare(BUS003, "sleeper") = 750
    /\ calculate_fare(BUS003, "premium") = 650
    /\ calculate_fare(BUS001, "standard") = 750

\* the fare of BUS001 premium was asked for while tickets were stored
C21_Witness ==
    /\ last.op = "calculate_fare"
    /\ last.bus = BUS001
    /\ last.seat_type = "premium"
    /\ last.ret = 975
    /\ tickets # <<>>

\* the class of position i of a bus
SeatClass(i) == IF i <= 10 THEN "premium" ELSE IF i <= 30 THEN "standard" ELSE "sleeper"

\* C22: get_seat_type puts every seat position 1..40 in exactly one class:
\* 1 to 10 premium, 11 to 30 standard, 31 to 40 sleeper, none unclassified.
C22_SeatClassPartition ==
    /\ \A i \in 1..TotalSeats :
           /\ get_seat_type(SeatId(i)) = SeatClass(i)
           /\ get_seat_type(SeatId(i)) \in {"premium", "standard", "sleeper"}
    /\ last.op = "get_seat_type" /\ last.seat \in ValidSeats
           => last.ret = SeatClass(PositionOf[last.seat])
    /\ get_seat_type(SeatId(1)) = "premium" /\ get_seat_type(SeatId(10)) = "premium"
    /\ get_seat_type(SeatId(11)) = "standard" /\ get_seat_type(SeatId(30)) = "standard"
    /\ get_seat_type(SeatId(31)) = "sleeper" /\ get_seat_type(SeatId(40)) = "sleeper"

\* the class of S31 was asked for
C22_Witness ==
    /\ last.op = "get_seat_type"
    /\ last.seat = SeatId(31)
    /\ last.ret = "sleeper"

\* C23: get_seat_type returns standard for every seat identifier that is not
\* a valid seat of a bus: a string that does not parse as a seat identifier,
\* or an identifier whose position lies outside 1..40.
C23_InvalidSeatIsStandard ==
    last.op = "get_seat_type" /\ last.seat \notin ValidSeats => last.ret = "standard"

(***************************************************************************)
(* The read operations of the TicketManager and utils.get_system_stats,    *)
(* called between creations and cancellations, one call at a time.         *)
(***************************************************************************)
\* the number of tickets created between the reads
MaxReadTickets == 2

\* sum(f[x] for x in keys)
RECURSIVE SumOver(_, _)
SumOver(f, keys) ==
    IF keys = {} THEN 0
    ELSE LET k == CHOOSE x \in keys : TRUE IN f[k] + SumOver(f, keys \ {k})

\* get_all_buses_info that reports on the first bus only
get_all_buses_info_first(m) ==
    [b \in {BUS001} |-> bus_to_dict(b, m.booked[b])]

\* models.TicketManager.get_all_buses_info
get_all_buses_info(m) ==
    [b \in DOMAIN m.booked |-> bus_to_dict(b, m.booked[b])]

\* utils.get_system_stats; overall_occupancy in hundredths of a percent
get_system_stats(m) ==
    IF get_all_tickets_raises(m) # "" THEN [raised |-> get_all_tickets_raises(m)] ELSE
    LET total_tickets == Cardinality(DOMAIN get_all_tickets(m))
        buses_info == get_all_buses_info(m)
        total_seats == SumOver([b \in DOMAIN buses_info |-> buses_info[b].total_seats],
                               DOMAIN buses_info)
        booked_seats == SumOver([b \in DOMAIN buses_info |-> buses_info[b].booked_seats],
                                DOMAIN buses_info)
    IN [total_tickets |-> total_tickets,
        total_buses |-> Cardinality(DOMAIN buses_info),
        total_seats |-> total_seats,
        booked_seats |-> booked_seats,
        available_seats |-> total_seats - booked_seats,
        overall_occupancy |-> IF total_seats > 0
                              THEN round2((booked_seats * 100 * 10000) \div total_seats)
                              ELSE 0]

\* a read that consumes a ticket id
Reading_consuming(m, ret) ==
    [m |-> [m EXCEPT !.next_ticket_id = @ + 1], ret |-> ret]

\* a call whose code assigns to nothing of the manager: the manager is as it
\* was, and ret is returned
Reading(m, ret) == [m |-> m, ret |-> ret]

ReadIdArgs == 1..(MaxReadTickets + 1)

\* the call returns and is remembered as the last one
Returned(op, arg, r) ==
    /\ SetMgr(r.m)
    /\ last' = [op |-> op, arg |-> arg, ret |-> r.ret]
    /\ UNCHANGED <<issued, thrVars, apiVars, dbVars, monVars>>

ReadCreate == CreateTicketUpTo(MaxReadTickets)

ReadCancel ==
    \E ticket_id \in ReadIdArgs :
        Returned("cancel_ticket", ticket_id, cancel_ticket(Mgr, ticket_id))

ReadTicket ==
    \E ticket_id \in ReadIdArgs :
        Returned("get_ticket", ticket_id, Reading(Mgr, get_ticket(Mgr, ticket_id)))

ReadAllTickets ==
    Returned("get_all_tickets", None, Reading(Mgr, get_all_tickets(Mgr)))

ReadAvailableSeats ==
    \E bus \in BusArgs :
        Returned("get_available_seats", bus, Reading(Mgr, get_available_seats(Mgr, bus)))

ReadBusInfo ==
    \E bus \in BusArgs :
        Returned("get_bus_info", bus, Reading(Mgr, get_bus_info(Mgr, bus)))

ReadAllBusesInfo ==
    Returned("get_all_buses_info", None, Reading(Mgr, get_all_buses_info(Mgr)))

ReadSystemStats ==
    Returned("get_system_stats", None, Reading(Mgr, get_system_stats(Mgr)))

NextRead ==
    \/ ReadCreate
    \/ ReadCancel
    \/ ReadTicket
    \/ ReadAllTickets
    \/ ReadAvailableSeats
    \/ ReadBusInfo
    \/ ReadAllBusesInfo
    \/ ReadSystemStats

SpecRead == Init /\ [][NextRead]_vars

ReadOps == {"get_ticket", "get_all_tickets", "get_available_seats", "get_bus_info",
            "get_all_buses_info", "get_system_stats"}

\* C24: between calls, get_system_stats reports total_tickets = the number of
\* tickets in the store, total_buses = 5, total_seats = 200 (the sum of the
\* buses' seat counts), booked_seats = the sum of the sizes of the booked
\* sets, available_seats = total_seats - booked_seats, and overall_occupancy =
\* booked_seats / total_seats x 100 to 2 decimals (in hundredths here).
C24_SystemStatsFromState ==
    last.op = "get_system_stats"
        => /\ last.ret.total_tickets = Cardinality(DOMAIN tickets)
           /\ last.ret.total_buses = 5
           /\ last.ret.total_seats = 200
           /\ last.ret.total_seats = SumOver([b \in BusNumbers |-> TotalSeats], BusNumbers)
           /\ last.ret.booked_seats
                  = SumOver([b \in BusNumbers |-> Cardinality(booked[b])], BusNumbers)
           /\ last.ret.available_seats = last.ret.total_seats - last.ret.booked_seats
           /\ last.ret.overall_occupancy * last.ret.total_seats
                  = last.ret.booked_seats * 100 * 100

\* the statistics were read with two tickets stored and two seats booked
C24_Witness ==
    /\ last.op = "get_system_stats"
    /\ last.ret.total_tickets = 2
    /\ last.ret.booked_seats = 2
    /\ last.ret.available_seats = 198
    /\ last.ret.overall_occupancy = 100

\* C25: get_ticket, get_all_tickets, get_available_seats, get_bus_info,
\* get_all_buses_info and get_system_stats leave the ticket store, every bus's
\* booked set and the next ticket id unchanged, whether the ticket id or bus
\* code asked for exists or not.
C25_ReadsChangeNothing ==
    [][last'.op \in ReadOps => UNCHANGED <<tickets, booked, next_ticket_id>>]_vars

\* a ticket that is not stored and a bus that does not exist were asked for
\* while a ticket was stored
C25_Witness ==
    /\ tickets # <<>>
    /\ \/ last.op = "get_ticket" /\ last.ret = None
       \/ last.op = "get_bus_info" /\ last.ret = None

(***************************************************************************)
(* routes.py with an audit sink that can fail.  utils.log_activity prints  *)
(* the entry to standard output; when the write fails (a closed pipe, a    *)
(* full disk) print raises OSError inside the handler's try block.         *)
(***************************************************************************)
LogIdArgs == {1, 2}

LogClient ==
    [threads |-> Servers, posts |-> FarePosts, puts |-> FarePuts,
     ids |-> LogIdArgs, sinks |-> BOOLEAN, kept |-> {}, max |-> MaxLogRequests]

NextLog == \E t \in Servers : Requests(t, LogClient) \/ HandlerSteps(t)

SpecLog == Init /\ [][NextLog]_vars

\* thread t is at the log_activity call of a POST, PUT or DELETE handler:
\* routes.py 116, after create_ticket has stored the ticket, 175, after
\* update_ticket has set the name, and 194, after cancel_ticket has deleted
\* the ticket
Logs(t) ==
    \/ loc[t].op = "POST" /\ pc[t] = "to_dict_status"
    \/ loc[t].op = "PUT" /\ pc[t] = "update_set"
    \/ loc[t].op = "DELETE" /\ pc[t] = "cancel_delete" /\ loc[t].args.id \in DOMAIN stored

\* C26: a failure of the audit sink does not fail the business operation: a
\* POST, PUT or DELETE on /api/tickets that changed the ticket store or a
\* bus's booked set and returns from its log_activity call with a response
\* reports success, also when log_activity raised.
C26_LogFailureKeepsSuccess ==
    [][\A t \in Servers :
         (Logs(t) /\ pc'[t] = "idle" /\ Answers) => resp'.success]_vars

(***************************************************************************)
(* database.py: the DatabaseManager over SQLite, called by several callers *)
(* at once.  Every method opens connections of its own, and every          *)
(* statement that it executes and commits is a transaction of its own:     *)
(* each action below is one of them, and the calls of the other callers    *)
(* run between the statements of a call.  The database is the tickets      *)
(* table (id -> row), the AUTOINCREMENT sequence of the table and the      *)
(* number of rows of audit_log.  The timestamps of a row are left out.     *)
(* Fares are in ten-thousandths of a currency unit and are multiples of    *)
(* 0.125, which binary floating point holds exactly.                       *)
(***************************************************************************)
\* the callers that call the DatabaseManager at once
DbCallers == {1, 2}

\* the rows a WHERE status = 'confirmed' selects, with cancelled rows too
Confirmed_any(d) == DOMAIN d.tickets

\* the rows of tickets WHERE status = 'confirmed'
Confirmed(d) == {i \in DOMAIN d.tickets : d.tickets[i].status = "confirmed"}

\* database.DatabaseManager.log_action: one more row of audit_log
log_action(d) == [d EXCEPT !.audit_log = @ + 1]

\* a Python bool as a typed value, as JInt is for an int
JBool(b) == [bool |-> b]

\* database.py 97-104: the INSERT of insert_ticket and its commit;
\* booking_reference is UNIQUE, and the sqlite3.IntegrityError of a second
\* row with the same reference is caught at 116-118: the call returns None
\* and the table is as before.  The id is a typed value, so that it can be
\* told from None.
insert_ticket(d, passenger_name, bus_number, seat_number, fare, seat_type, booking_reference) ==
    IF \E i \in DOMAIN d.tickets : d.tickets[i].booking_reference = booking_reference
    THEN [d |-> d, ret |-> None]
    ELSE LET ticket_id == d.seq + 1
             row == [id |-> ticket_id, passenger_name |-> passenger_name,
                     bus_number |-> bus_number, seat_number |-> seat_number,
                     status |-> "confirmed", fare |-> fare, seat_type |-> seat_type,
                     booking_reference |-> booking_reference]
         IN [d |-> [d EXCEPT !.tickets = DictSet(@, ticket_id, row), !.seq = ticket_id],
             ret |-> JInt(ticket_id)]

\* database.DatabaseManager.get_ticket: WHERE id = ? AND status != 'deleted'
db_get_ticket(d, ticket_id) ==
    IF ticket_id \in DOMAIN d.tickets /\ d.tickets[ticket_id].status # "deleted"
    THEN d.tickets[ticket_id] ELSE None

\* database.DatabaseManager.update_ticket: allowed_fields
db_allowed_fields == {"passenger_name", "bus_number", "seat_number", "status", "fare"}

\* database.py 168-176: the SET clauses of update_ticket
set_clauses(kwargs) == DOMAIN kwargs \cap db_allowed_fields

\* database.py 182-185: UPDATE tickets SET ... WHERE id = ? and its commit,
\* on the row as it is when the statement runs, whatever its status
db_update_ticket(d, ticket_id, kwargs) ==
    IF ticket_id \notin DOMAIN d.tickets THEN d
    ELSE [d EXCEPT !.tickets[ticket_id] =
            [f \in DOMAIN @ |-> IF f \in set_clauses(kwargs) THEN kwargs[f] ELSE @[f]]]

\* database.DatabaseManager.get_bus_seat_availability; the two lists are made
\* from sets and are kept as sets
get_bus_seat_availability(d, bus_number) ==
    LET booked_seats == {d.tickets[i].seat_number :
                            i \in {j \in Confirmed(d) :
                                      d.tickets[j].bus_number = bus_number}}
        available_seats == ValidSeats \ booked_seats
    IN [bus_number |-> bus_number,
        total_seats |-> 40,
        booked_seats |-> booked_seats,
        available_seats |-> available_seats,
        booked_count |-> Cardinality(booked_seats),
        available_count |-> Cardinality(available_seats),
        occupancy_rate |-> round2((Cardinality(booked_seats) * 100 * 10000) \div 40)]

\* database.py 236-237: SELECT COUNT(*) ... WHERE status = 'confirmed'
total_tickets(d) == Cardinality(Confirmed(d))

\* database.py 240-246: ... GROUP BY bus_number
tickets_by_bus(d) ==
    [b \in {d.tickets[i].bus_number : i \in Confirmed(d)} |->
        Cardinality({i \in Confirmed(d) : d.tickets[i].bus_number = b})]

\* database.py 249-250: SELECT SUM(fare) ... or 0.0, in ten-thousandths
total_revenue(d) == SumOver([i \in Confirmed(d) |-> d.tickets[i].fare], Confirmed(d))

\* database.py 253-259: the confirmed rows booked in the last day, which
\* every row of a run is
recent_bookings(d) == Cardinality(Confirmed(d))

\* database.py 261-268: what get_system_statistics returns of what its
\* queries selected, without system_uptime; total_revenue in hundredths
get_system_statistics(selected) ==
    [total_tickets |-> selected.total_tickets,
     tickets_by_bus |-> selected.tickets_by_bus,
     total_revenue |-> round2(selected.total_revenue),
     recent_bookings |-> selected.recent_bookings,
     total_buses |-> 5]

\* arguments of the calls; 500000 is 50.0 and 1250 is 0.125
DbBusArgs == {BUS001}
DbSeatArgs == {SeatId(1), SeatId(2)}
DbFares == {500000, 1250}
DbReferences == {<<>>, <<"R", "1">>}
DbIdArgs == {1, 2}
DbKwargs == {[status |-> "deleted"], [fare |-> 750000, seat_type |-> "sleeper"],
             [booking_reference |-> <<"R", "2">>]}

\* caller t goes on at label with the local variables frame, and leaves the
\* database d
DbGoto(t, label, frame, d) ==
    /\ pc' = [pc EXCEPT ![t] = label]
    /\ loc' = [loc EXCEPT ![t] = frame]
    /\ db' = d
    /\ UNCHANGED <<mgrVars, seqVars, results, objs, stored, apiVars, monVars>>

\* the call of caller t, whose local variables are frame, returns value and
\* leaves the database d; turn tells the return from the one before it
DbReturn(t, frame, value, d) ==
    /\ pc' = [pc EXCEPT ![t] = "idle"]
    /\ loc' = [loc EXCEPT ![t] = [op |-> "none"]]
    /\ db' = d
    /\ last' = [op |-> frame.op, args |-> frame.args, ret |-> value,
                turn |-> IF "turn" \in DOMAIN last THEN 1 - last.turn ELSE 0]
    /\ UNCHANGED <<mgrVars, issued, results, objs, stored, apiVars, monVars>>

\* a call starts on a caller of its own
DbCall(t) ==
    /\ Free(t, DbCallers)
    /\ calls < MaxDbCalls
    /\ calls' = calls + 1

\* the local variables of a call that starts
DbFrame(op, args) == [op |-> op, args |-> args]

\* insert_ticket is called; database.py 97-104, the INSERT
DbInsert(t) ==
    /\ DbCall(t)
    /\ \E bus \in DbBusArgs, seat \in DbSeatArgs, fare \in DbFares,
          booking_reference \in DbReferences :
          LET frame == DbFrame("insert_ticket",
                               [bus |-> bus, seat |-> seat, fare |-> fare,
                                booking_reference |-> booking_reference])
              r == insert_ticket(db, ConcName, bus, seat, fare, "standard",
                                 booking_reference)
          IN IF r.ret = None
             THEN DbReturn(t, frame, None, db)
             ELSE DbGoto(t, "insert_log", DictSet(frame, "ticket_id", r.ret), r.d)

\* database.py 107-114: insert_ticket logs the action in a second connection
\* and returns the id
DbInsertLog(t) ==
    /\ pc[t] = "insert_log"
    /\ DbReturn(t, loc[t], loc[t].ticket_id, log_action(db))
    /\ UNCHANGED calls

\* database.py 161-176: update_ticket(ticket_id, **kwargs) reads the old
\* values and builds the query
DbUpdateRead(t, op, ticket_id, kwargs) ==
    LET frame == DbFrame(op, [id |-> ticket_id, kwargs |-> kwargs])
    IN IF db_get_ticket(db, ticket_id) = None \/ set_clauses(kwargs) = {}
       THEN DbReturn(t, frame, JBool(FALSE), db)
       ELSE DbGoto(t, "update_row", frame, db)

\* update_ticket is called
DbUpdate(t) ==
    /\ DbCall(t)
    /\ \E ticket_id \in DbIdArgs, kwargs \in DbKwargs :
          DbUpdateRead(t, "update_ticket", ticket_id, kwargs)

\* delete_ticket is called; database.py 198: it is
\* update_ticket(ticket_id, status='cancelled')
DbDelete(t) ==
    /\ DbCall(t)
    /\ \E ticket_id \in DbIdArgs :
          DbUpdateRead(t, "delete_ticket", ticket_id, [status |-> "cancelled"])

\* database.py 182-185: the UPDATE
DbUpdateRow(t) ==
    /\ pc[t] = "update_row"
    /\ DbGoto(t, "update_log", loc[t],
              db_update_ticket(db, loc[t].args.id, loc[t].args.kwargs))
    /\ UNCHANGED calls

\* database.py 188-191: update_ticket logs the action and returns True
DbUpdateLog(t) ==
    /\ pc[t] = "update_log"
    /\ DbReturn(t, loc[t], JBool(TRUE), log_action(db))
    /\ UNCHANGED calls

DbGet(t) ==
    /\ DbCall(t)
    /\ \E ticket_id \in DbIdArgs :
          DbReturn(t, DbFrame("get_ticket", [id |-> ticket_id]),
                   db_get_ticket(db, ticket_id), db)

DbAvailability(t) ==
    /\ DbCall(t)
    /\ \E bus \in DbBusArgs \cup {BUS002} :
          DbReturn(t, DbFrame("get_bus_seat_availability", [bus |-> bus]),
                   get_bus_seat_availability(db, bus), db)

\* database.py 274-289: log_action, called from outside
DbLogAction(t) ==
    /\ DbCall(t)
    /\ DbReturn(t, DbFrame("log_action", None), None, log_action(db))

\* get_system_statistics is called; database.py 236-237, its first SELECT.
\* The connection holds no transaction open between the four queries.
DbStatistics(t) ==
    /\ DbCall(t)
    /\ DbGoto(t, "stat_by_bus",
              DictSet(DbFrame("get_system_statistics", None),
                      "selected", [total_tickets |-> total_tickets(db)]),
              db)

\* database.py 240-246
DbStatByBus(t) ==
    /\ pc[t] = "stat_by_bus"
    /\ DbGoto(t, "stat_revenue",
              [loc[t] EXCEPT !.selected = DictSet(@, "tickets_by_bus", tickets_by_bus(db))],
              db)
    /\ UNCHANGED calls

\* database.py 249-250
DbStatRevenue(t) ==
    /\ pc[t] = "stat_revenue"
    /\ DbGoto(t, "stat_recent",
              [loc[t] EXCEPT !.selected = DictSet(@, "total_revenue", total_revenue(db))],
              db)
    /\ UNCHANGED calls

\* database.py 253-268: the last SELECT and the return
DbStatRecent(t) ==
    /\ pc[t] = "stat_recent"
    /\ DbReturn(t, loc[t],
                get_system_statistics(DictSet(loc[t].selected, "recent_bookings",
                                              recent_bookings(db))),
                db)
    /\ UNCHANGED calls

NextDb ==
    \E t \in DbCallers :
        \/ DbInsert(t)
        \/ DbInsertLog(t)
        \/ DbUpdate(t)
        \/ DbDelete(t)
        \/ DbUpdateRow(t)
        \/ DbUpdateLog(t)
        \/ DbGet(t)
        \/ DbAvailability(t)
        \/ DbLogAction(t)
        \/ DbStatistics(t)
        \/ DbStatByBus(t)
        \/ DbStatRevenue(t)
        \/ DbStatRecent(t)

\* DatabaseManager(db_path) on a file that does not exist yet, then calls
SpecDb == Init /\ [][NextDb]_vars

\* a call returns at this step
DbReturns == last' # last

\* C27: after delete_ticket(id) has returned True, get_ticket(id) returns
\* None: the ticket is marked cancelled and get_ticket filters it out.
C27_DeletedTicketIsGone ==
    [][(/\ DbReturns
        /\ last.op = "delete_ticket"
        /\ last.ret = JBool(TRUE)
        /\ last'.op = "get_ticket"
        /\ last'.args.id = last.args.id)
       => last'.ret = None]_vars

\* a confirmed row of the table holds seat seat_number of bus bus_number
DbBooked(d, bus_number, seat_number) ==
    \E i \in DOMAIN d.tickets :
        /\ d.tickets[i].bus_number = bus_number
        /\ d.tickets[i].seat_number = seat_number
        /\ d.tickets[i].status = "confirmed"

\* C28: every insert_ticket for a (bus, seat) that is not booked when its
\* INSERT runs inserts a row under a new ticket id and returns that id, also
\* when booking_reference is left at its default in successive calls; once
\* S01 and S02 of BUS001 are inserted, get_bus_seat_availability reports
\* booked_count 2, available_count 38, and S01 and S02 among the booked seats
\* and not among the available ones.
C28_InsertReturnsNewId ==
    [][/\ (DbReturns /\ last'.op = "insert_ticket" /\ last'.ret = None)
          => DbBooked(db, last'.args.bus, last'.args.seat)
       /\ \A t \in DbCallers :
             /\ (pc[t] = "idle" /\ pc'[t] = "insert_log")
                => /\ loc'[t].ticket_id = JInt(db'.seq)
                   /\ db'.seq \notin DOMAIN db.tickets
                   /\ db'.seq \in DOMAIN db'.tickets
             /\ (pc[t] = "insert_log" /\ pc'[t] = "idle")
                => last'.ret = loc[t].ticket_id
       /\ (/\ DbReturns
           /\ last'.op = "get_bus_seat_availability" /\ last'.args.bus = BUS001
           /\ DbBooked(db, BUS001, SeatId(1)) /\ DbBooked(db, BUS001, SeatId(2)))
          => /\ last'.ret.booked_count = 2
             /\ last'.ret.available_count = 38
             /\ {SeatId(1), SeatId(2)} \subseteq last'.ret.booked_seats
             /\ {SeatId(1), SeatId(2)} \cap last'.ret.available_seats = {}]_vars

\* the rows with status confirmed, and the sum of their fares
ConfirmedRows == {i \in DOMAIN db.tickets : db.tickets[i].status = "confirmed"}
ConfirmedFares == SumOver([i \in ConfirmedRows |-> db.tickets[i].fare], ConfirmedRows)

\* C29 as stated: get_system_statistics reports total_tickets = the number of
\* rows with status confirmed and total_revenue = the sum of their fares
\* (total_revenue is in hundredths, the fares in ten-thousandths): the
\* figures it returns are those of the table it returns over.
C29_RevenueIsSumOfFares ==
    [][(DbReturns /\ last'.op = "get_system_statistics")
       => /\ last'.ret.total_tickets = Cardinality(ConfirmedRows)
          /\ last'.ret.total_revenue * 100 = ConfirmedFares]_vars

\* C29: get_system_statistics reports as total_tickets the number of rows
\* with status confirmed that its first query finds, and as total_revenue
\* the sum of the fares of the rows with status confirmed that its third
\* query finds, rounded to 2 decimals, which is the sum itself when the
\* fares are whole hundredths; cancelled rows are counted in neither.  Calls
\* that write between the queries make the two figures those of different
\* states of the table.
C29_RevenueIsRoundedSum ==
    [][\A t \in DbCallers :
         /\ (pc[t] = "idle" /\ pc'[t] = "stat_by_bus")
            => loc'[t].selected.total_tickets = Cardinality(ConfirmedRows)
         /\ (pc[t] = "stat_revenue" /\ pc'[t] = "stat_recent")
            => LET total == loc'[t].selected.total_revenue
               IN /\ total = ConfirmedFares
                  /\ round2(total) * 100 - ConfirmedFares \in -50..50
                  /\ (\A i \in ConfirmedRows : db.tickets[i].fare % 100 = 0)
                        => round2(total) * 100 = ConfirmedFares
         /\ (pc[t] = "stat_recent" /\ pc'[t] = "idle")
            => /\ last'.ret.total_tickets = loc[t].selected.total_tickets
               /\ last'.ret.total_revenue = round2(loc[t].selected.total_revenue)]_vars

\* the statistics were read with one row cancelled and one row of fare 50.0
\* confirmed
C29_Witness ==
    /\ last.op = "get_system_statistics"
    /\ \E i \in DOMAIN db.tickets : db.tickets[i].status = "cancelled"
    /\ last.ret.total_tickets = 1
    /\ last.ret.total_revenue = 5000

\* C30: under every interleaving of concurrent callers, every call of the
\* engine that has ended returned a value (a ticket, None, True or False):
\* none ended in an exception.
C30_EveryCallReturns ==
    \A c \in DOMAIN results : results[c].raised = ""

(***************************************************************************)
(* Contracts of the single operations of the engine                        *)
(***************************************************************************)
\* C31: get_available_seats for a bus code that is not a configured bus
\* returns the empty sequence, in whatever state the manager is.
C31_UnknownBusHasNoSeats ==
    /\ \A bus \in BusArgs \ BusNumbers : get_available_seats(Mgr, bus) = <<>>
    /\ last.op = "get_available_seats" /\ last.arg \notin BusNumbers
           => last.ret = <<>>

\* the seats of BUS999 were asked for while tickets were stored
C31_Witness ==
    /\ last.op = "get_available_seats"
    /\ last.arg = BUS999
    /\ last.ret = <<>>
    /\ tickets # <<>>

\* the number of tickets created in the specification of the contracts
MaxEngTickets == 3

\* create_ticket(name, bus, seat), remembered with all its arguments
EngCreate ==
    \E name \in NameArgs, bus \in BusArgs, seat \in SeatArgs :
        /\ next_ticket_id <= MaxEngTickets
        /\ LET r == create_ticket(Mgr, name, bus, seat)
           IN /\ SetMgr(r.m)
              /\ last' = [op |-> "create_ticket", name |-> name, bus |-> bus,
                          seat |-> seat, ret |-> r.ret]
              /\ issued' = IF r.ret # None THEN Append(issued, r.ret.id) ELSE issued
              /\ UNCHANGED <<thrVars, apiVars, dbVars, monVars>>

NextEngine == EngCreate \/ CancelTicket \/ UpdateTicketName

SpecEngine == Init /\ [][NextEngine]_vars

\* C32: a successful create_ticket(name, B, S) returns a ticket with that
\* name, bus B, seat S, status confirmed and the id that was the next ticket
\* id; afterwards the store is the old store with that ticket under that id,
\* the booked sets are the old ones with S added to B's, and the next ticket
\* id is one greater.
C32_CreatePostcondition ==
    [][last'.op = "create_ticket" /\ last'.ret # None
       => /\ last'.ret.name = last'.name
          /\ last'.ret.bus = last'.bus
          /\ last'.ret.seat = last'.seat
          /\ last'.ret.status = "confirmed"
          /\ last'.ret.id = next_ticket_id
          /\ tickets' = [i \in DOMAIN tickets \cup {next_ticket_id} |->
                            IF i = next_ticket_id THEN last'.ret ELSE tickets[i]]
          /\ last'.seat \notin booked[last'.bus]
          /\ booked' = [b \in DOMAIN booked |->
                           IF b = last'.bus THEN booked[b] \cup {last'.seat}
                           ELSE booked[b]]
          /\ next_ticket_id' = next_ticket_id + 1]_vars

\* a second ticket was created beside a first one
C32_Witness ==
    /\ last.op = "create_ticket"
    /\ last.ret # None
    /\ last.ret.id = 2
    /\ DOMAIN tickets = {1, 2}

\* C33: a create_ticket that fails (unknown bus, or seat already booked on the
\* bus) returns no ticket and leaves the store, the booked sets and the next
\* ticket id unchanged; so the next ticket id is 1 plus the number of
\* successful creates and the ids issued are 1, 2, ... without a gap.
C33_FailedCreateChangesNothing ==
    [][/\ last'.op = "create_ticket"
             /\ (last'.bus \notin BusNumbers \/ last'.seat \in booked[last'.bus])
          => /\ last'.ret = None
             /\ UNCHANGED <<tickets, booked, next_ticket_id>>
       /\ last'.op = "create_ticket" /\ last'.ret = None
          => UNCHANGED <<tickets, booked, next_ticket_id>>
       /\ next_ticket_id' = 1 + Len(issued')
       /\ issued' = [i \in 1..Len(issued') |-> i]]_vars

\* a create_ticket for a booked seat failed after two had succeeded
C33_Witness ==
    /\ last.op = "create_ticket"
    /\ last.ret = None
    /\ last.bus \in BusNumbers
    /\ issued = <<1, 2>>
    /\ next_ticket_id = 3

\* C35: a successful cancel_ticket(id) removes that ticket from the store and
\* that ticket's seat from the booked set of its bus; every other ticket,
\* every other booked seat of every bus and the next ticket id are unchanged.
C35_CancelFrame ==
    [][last'.op = "cancel_ticket" /\ last'.ret = TRUE
       => /\ last'.id \in DOMAIN tickets
          /\ tickets' = [i \in DOMAIN tickets \ {last'.id} |-> tickets[i]]
          /\ booked' = [b \in DOMAIN booked |->
                           IF b = tickets[last'.id].bus
                           THEN booked[b] \ {tickets[last'.id].seat}
                           ELSE booked[b]]
          /\ next_ticket_id' = next_ticket_id]_vars

\* a ticket was cancelled while another ticket kept its seat on the same bus
C35_Witness ==
    /\ last.op = "cancel_ticket"
    /\ last.ret = TRUE
    /\ \E i \in DOMAIN tickets :
          /\ tickets[i].bus = BUS001
          /\ booked[BUS001] = {tickets[i].seat}
    /\ next_ticket_id = 3

(***************************************************************************)
(* models.Bus used directly: book_seat and release_seat called on the      *)
(* buses in any order, without the TicketManager in between.               *)
(***************************************************************************)
BusSeatArgs == {SeatId(1), SeatId(2), SeatId(40), SeatId(41)}

BusBook ==
    \E bus \in {BUS001, BUS003}, seat \in BusSeatArgs :
        LET r == book_seat(booked[bus], seat)
        IN /\ booked' = [booked EXCEPT ![bus] = r.booked_seats]
           /\ last' = [op |-> "book_seat", bus |-> bus, seat |-> seat, ret |-> r.ret]
           /\ UNCHANGED <<tickets, next_ticket_id, clock, issued, thrVars, apiVars, dbVars, monVars>>

BusRelease ==
    \E bus \in {BUS001, BUS003}, seat \in BusSeatArgs :
        /\ booked' = [booked EXCEPT ![bus] = release_seat(@, seat)]
        /\ last' = [op |-> "release_seat", bus |-> bus, seat |-> seat]
        /\ UNCHANGED <<tickets, next_ticket_id, clock, issued, thrVars, apiVars, dbVars, monVars>>

NextBus == BusBook \/ BusRelease

SpecBus == Init /\ [][NextBus]_vars

\* C34: book_seat(s) returns True and adds s to the booked set when s is not
\* booked, and returns False and leaves the set unchanged when s is booked;
\* release_seat(s) removes s when it is booked and does nothing when it is
\* not, so that releasing a seat twice leaves what releasing it once leaves.
C34_BookAndRelease ==
    [][/\ last'.op = "book_seat" /\ last'.seat \notin booked[last'.bus]
          => /\ last'.ret = TRUE
             /\ booked' = [booked EXCEPT ![last'.bus] = @ \cup {last'.seat}]
       /\ last'.op = "book_seat" /\ last'.seat \in booked[last'.bus]
          => /\ last'.ret = FALSE
             /\ booked' = booked
       /\ last'.op = "release_seat"
          => /\ booked' = [booked EXCEPT ![last'.bus] = @ \ {last'.seat}]
             /\ last'.seat \notin booked[last'.bus] => booked' = booked
       /\ last.op = "release_seat" /\ last'.op = "release_seat"
             /\ last'.bus = last.bus /\ last'.seat = last.seat
          => booked' = booked]_vars

\* S01 was released on a bus where S02 stays booked
C34_Witness ==
    /\ last.op = "release_seat"
    /\ last.seat = SeatId(1)
    /\ booked[last.bus] = {SeatId(2)}

(***************************************************************************)
(* The bus summary                                                         *)
(***************************************************************************)
\* routes.get_bus_info (GET /api/buses/<bus_number>): the summary of the bus
\* with the list of its available seats added
route_get_bus_info(m, bus_number) ==
    LET formatted_bus == format_bus_number(bus_number)
        bus_info == get_bus_info(m, formatted_bus)
    IN IF format_bus_number_raises(bus_number)
       THEN [m |-> m, resp |-> format_response(500, FALSE, None, "GET_BUS_ERROR")]
       ELSE IF bus_info = None
       THEN [m |-> m, resp |-> format_response(404, FALSE, None, "BUS_NOT_FOUND")]
       ELSE [m |-> m,
             resp |-> format_response(200, TRUE,
                          [bus |-> bus_info,
                           available_seats_list |-> get_available_seats(m, formatted_bus)],
                          "")]

\* C36: in every reachable state the summary of every bus, from get_bus_info
\* and from GET /api/buses/<bus>, has booked_seats + available_seats =
\* total_seats, and the list of available seats returned with it has exactly
\* available_seats entries.
C36_SummaryAddsUp ==
    \A b \in BusNumbers :
        LET summary == get_bus_info(Mgr, b)
            reply == route_get_bus_info(Mgr, b).resp
        IN /\ summary.booked_seats + summary.available_seats = summary.total_seats
           /\ reply.status = 200
           /\ reply.data.bus = summary
           /\ Len(reply.data.available_seats_list) = summary.available_seats

(***************************************************************************)
(* POST /api/tickets with names validate_passenger_name accepts            *)
(***************************************************************************)
\* the largest ticket id issued where passenger names of every kind are sent
MaxNameTickets == 2

\* names with letters, a space, a hyphen, an apostrophe and a period, and
\* one with a digit
NamePostNames ==
    {<<"A", "l">>, <<" ", "B", "o", " ">>, <<"J", "-", "R">>, <<"J", ".", "R">>,
     <<"O", "'", "N">>, <<"A", "'">>, <<"A", "1">>}
NamePostBodies ==
    {[name |-> name, bus |-> bus, seat |-> seat] :
        name \in NamePostNames, bus \in {BUS001, BUS999}, seat \in {SeatId(1), SeatId(2)}}

NamePost ==
    \E data \in NamePostBodies :
        /\ next_ticket_id <= MaxNameTickets
        /\ Handle([method |-> "POST", data |-> data], route_create_ticket(Mgr, data))

NextName == NamePost \/ GetTicket \/ DeleteTicket

SpecName == Init /\ [][NextName]_vars

\* C37: for every name validate_passenger_name accepts, POST /api/tickets
\* with that name and a free valid seat of a known bus succeeds and stores
\* the name unchanged apart from the trimming of surrounding whitespace.
C37_AcceptedNameIsStored ==
    [][\A data \in NamePostBodies :
          (/\ req' = [method |-> "POST", data |-> data]
           /\ next_ticket_id <= MaxNameTickets
           /\ validate_passenger_name(data.name)
           /\ data.bus \in BusNumbers
           /\ validate_seat_number(data.seat)
           /\ data.seat \notin booked[data.bus])
          => /\ resp'.status = 201
             /\ next_ticket_id \in DOMAIN tickets'
             /\ tickets'[next_ticket_id].name = Strip(data.name)
             /\ resp'.data.ticket.name = Strip(data.name)]_vars

\* C38: after any sequence of insert_ticket, update_ticket and delete_ticket
\* calls each (bus_number, seat_number) has at most one ticket with status
\* confirmed, so that booked_count of get_bus_seat_availability is the number
\* of confirmed tickets of the bus.
C38_OneConfirmedTicketPerSeat ==
    /\ \A i, j \in Confirmed(db) :
          (/\ db.tickets[i].bus_number = db.tickets[j].bus_number
           /\ db.tickets[i].seat_number = db.tickets[j].seat_number) => i = j
    /\ \A bus \in DbBusArgs \cup {BUS002} :
          get_bus_seat_availability(db, bus).booked_count
             = Cardinality({i \in Confirmed(db) : db.tickets[i].bus_number = bus})

(***************************************************************************)
(* monitoring.AlertSystem: the alerts retained and their ids               *)
(***************************************************************************)
\* monitoring.py 309: deque(maxlen=100)
AlertsMaxLen == 100
\* the number of alerts created
MaxAlerts == 102
\* check_alerts is called while fewer alerts than this were created
MaxCheckedAlerts == 2

\* collections.deque.append on a deque with maxlen: a full deque drops its
\* leftmost item
deque_append(dq, x) ==
    IF Len(dq) = AlertsMaxLen THEN Append(Tail(dq), x) ELSE Append(dq, x)

\* monitoring.AlertSystem.create_alert; now is datetime.now()
create_alert(a, alert_type, message, severity, now) ==
    LET alert == [id |-> Len(a) + 1, type |-> alert_type, message |-> message,
                  severity |-> severity, timestamp |-> now, resolved |-> FALSE]
    IN [alerts |-> deque_append(a, alert), ret |-> alert]

\* monitoring.AlertSystem.get_active_alerts
get_active_alerts(a) == SelectSeq(a, LAMBDA alert : ~alert.resolved)

\* monitoring.AlertSystem.resolve_alert: the first alert of the deque with
\* the id is marked
resolve_alert(a, alert_id) ==
    LET found == {i \in DOMAIN a : a[i].id = alert_id}
    IN IF found = {} THEN [alerts |-> a, ret |-> FALSE]
       ELSE LET first == CHOOSE i \in found : \A j \in found : i <= j
            IN [alerts |-> [a EXCEPT ![first].resolved = TRUE], ret |-> TRUE]

\* monitoring.py 311-316: alert_rules, every rule enabled, in the order
\* check_alerts goes through them; value is the measure of stats the rule
\* reads, 0 where stats['system'] has no such key, and text the words of
\* its message around the measure
alert_rules ==
    <<[type |-> "high_cpu", threshold |-> 80, severity |-> "warning",
       measure |-> "cpu_percent",
       text |-> <<"C", "P", "U", " ", "u", "s", "a", "g", "e", " ", "i", "s", " ">>,
       unit |-> <<"%">>],
      [type |-> "high_memory", threshold |-> 85, severity |-> "warning",
       measure |-> "memory_percent",
       text |-> <<"M", "e", "m", "o", "r", "y", " ", "u", "s", "a", "g", "e", " ",
                  "i", "s", " ">>,
       unit |-> <<"%">>],
      [type |-> "high_error_rate", threshold |-> 15, severity |-> "critical",
       measure |-> "error_rate",
       text |-> <<"E", "r", "r", "o", "r", " ", "r", "a", "t", "e", " ", "i", "s", " ">>,
       unit |-> <<"%">>],
      [type |-> "slow_response", threshold |-> 10, severity |-> "warning",
       measure |-> "average",
       text |-> <<"A", "v", "e", "r", "a", "g", "e", " ", "r", "e", "s", "p", "o", "n",
                  "s", "e", " ", "t", "i", "m", "e", " ", "i", "s", " ">>,
       unit |-> <<"s">>]>>

\* a Python float of at most three decimals, in thousandths, as a typed
\* value: monitoring.py 169 rounds the average to 3 decimals and 189 the
\* error rate to 2, and psutil reports percentages with one
PyFloat(n) == [float |-> n]

\* the value of a measure, an int or a float, in thousandths
Thousandths(v) == IF IsInt(v) THEN v.int * 1000 ELSE v.float

\* str(x) of a float, which an f-string renders: the integer part, the
\* point and the decimals without trailing zeros, one of them at least
FloatStr(n) ==
    LET frac == n % 1000
        d1 == <<DigitSeq[(frac \div 100) + 1]>>
        d2 == <<DigitSeq[((frac \div 10) % 10) + 1]>>
        d3 == <<DigitSeq[(frac % 10) + 1]>>
    IN PyStr(n \div 1000) \o <<".">>
       \o (IF frac % 10 # 0 THEN d1 \o d2 \o d3
           ELSE IF frac % 100 # 0 THEN d1 \o d2
           ELSE d1)

\* monitoring.py 327, 337, 347, 357: the measure in the f-string of a message
MeasureStr(v) == IF IsInt(v) THEN PyStr(v.int) ELSE FloatStr(v.float)

\* monitoring.AlertSystem.check_alerts from rule number i on; stats maps the
\* measures to ints and floats, a the alerts so far, triggered the alerts
\* created so far and now the clock
RECURSIVE check_alerts_from(_, _, _, _, _)
check_alerts_from(i, a, stats, triggered, now) ==
    IF i > Len(alert_rules) THEN [alerts |-> a, ret |-> triggered, now |-> now]
    ELSE LET rule == alert_rules[i]
             value == IF rule.measure \in DOMAIN stats THEN stats[rule.measure]
                      ELSE JInt(0)
             r == create_alert(a, rule.type,
                               rule.text \o MeasureStr(value) \o rule.unit,
                               rule.severity, now)
         IN IF Thousandths(value) > rule.threshold * 1000
            THEN check_alerts_from(i + 1, r.alerts, stats, Append(triggered, r.ret), now + 1)
            ELSE check_alerts_from(i + 1, a, stats, triggered, now)

\* monitoring.AlertSystem.check_alerts(performance_monitor), on the stats
\* that performance_monitor.get_performance_stats() returns
check_alerts(a, stats, now) == check_alerts_from(1, a, stats, <<>>, now)

\* the alert check_alerts raises for a high CPU usage
AlertKinds == {[type |-> "high_cpu", message |-> <<"C", "P", "U">>, severity |-> "warning"]}
ResolveIdArgs == {1, 2, AlertsMaxLen + 1, AlertsMaxLen + 2}
\* the stats checked: before the first reading of the system and the first
\* request (monitoring.py 32, 142, 181), with the measures at their
\* thresholds, with one measure above, and with all above: 95.5, 90.0, 33.33
\* and 12.345
StatsArgs ==
    {[error_rate |-> PyFloat(0), average |-> JInt(0)],
     [cpu_percent |-> PyFloat(80000), memory_percent |-> PyFloat(85000),
      error_rate |-> PyFloat(15000), average |-> PyFloat(10000)],
     [cpu_percent |-> PyFloat(81000), memory_percent |-> PyFloat(40000),
      error_rate |-> PyFloat(0), average |-> JInt(0)],
     [cpu_percent |-> PyFloat(95500), memory_percent |-> PyFloat(90000),
      error_rate |-> PyFloat(33330), average |-> PyFloat(12345)]}

AlertCreate ==
    \E kind \in AlertKinds :
        /\ clock < MaxAlerts
        /\ LET r == create_alert(alerts, kind.type, kind.message, kind.severity, clock)
           IN /\ alerts' = r.alerts
              /\ clock' = clock + 1
              /\ last' = [op |-> "create_alert", kind |-> kind, ret |-> r.ret]
        /\ UNCHANGED <<tickets, booked, next_ticket_id, issued, thrVars, apiVars, dbVars>>

AlertCheck ==
    \E stats \in StatsArgs :
        /\ clock < MaxCheckedAlerts
        /\ LET r == check_alerts(alerts, stats, clock)
           IN /\ alerts' = r.alerts
              /\ clock' = r.now
              /\ last' = [op |-> "check_alerts", stats |-> stats, ret |-> r.ret]
        /\ UNCHANGED <<tickets, booked, next_ticket_id, issued, thrVars, apiVars, dbVars>>

AlertResolve ==
    \E alert_id \in ResolveIdArgs :
        LET r == resolve_alert(alerts, alert_id)
        IN /\ alerts' = r.alerts
           /\ last' = [op |-> "resolve_alert", id |-> alert_id, ret |-> JBool(r.ret)]
           /\ UNCHANGED <<mgrVars, issued, thrVars, apiVars, dbVars>>

AlertActive ==
    /\ last' = [op |-> "get_active_alerts", ret |-> get_active_alerts(alerts)]
    /\ UNCHANGED <<mgrVars, issued, thrVars, apiVars, dbVars, monVars>>

NextAlert == AlertCreate \/ AlertCheck \/ AlertResolve \/ AlertActive

SpecAlert == Init /\ [][NextAlert]_vars

\* C39: in every state of an AlertSystem the alerts stored have pairwise
\* distinct ids, after any number of create_alert calls, more than the 100
\* the store retains included, so that resolve_alert(id) marks resolved
\* exactly the one alert that was created with that id.
C39_AlertIdsAreDistinct ==
    [][/\ \A i, j \in DOMAIN alerts' : alerts'[i].id = alerts'[j].id => i = j
       /\ (last'.op = "resolve_alert" /\ last'.ret = JBool(TRUE))
             => /\ Len(alerts') = Len(alerts)
                /\ \A i \in DOMAIN alerts :
                      alerts'[i] = IF alerts[i].id = last'.id
                                   THEN [alerts[i] EXCEPT !.resolved = TRUE]
                                   ELSE alerts[i]]_vars

====
